---- MODULE Spec2Model ----
(***************************************************************************)
(* NoteGenius: the SM-2 spaced-repetition scheduler (services/nlp/srs.ts), *)
(* the flashcard generator (services/nlp/flashcardGenerator.ts and         *)
(* OfflineProvider.generateFlashcards) and the deck they feed.             *)
(*                                                                         *)
(* Numbers.  JavaScript numbers are IEEE doubles.  Easiness is kept here   *)
(* in thousandths (2.5 is 2500), so that the code's rounding to two        *)
(* decimals is a real conversion; intervals are whole days and instants    *)
(* whole milliseconds.  On every card state the specifications below reach *)
(* the fixed-point arithmetic gives the same easiness and interval as the  *)
(* double arithmetic of the code (the two differ only on exact .5 ties of  *)
(* interval * easiness, which need an interval of 25 days or more or an    *)
(* easiness with a third decimal of 5).                                    *)
(***************************************************************************)
EXTENDS Integers, Sequences, FiniteSets, TLC

VARIABLES
    now,        \* Date.now(), in ms
    card,       \* the flashcard under review (its persisted row)
    prev,       \* the card as it was handed to the last computeSRS call
    rated,      \* the rating of the last computeSRS call, -1 before any
    upd,        \* the SRSUpdate the last computeSRS call returned
    deck,       \* the store's cards, a sequence of flashcards
    dueIn,      \* the sequence handed to the last filterDueCards call
    dueAt,      \* the `now` handed to that call
    due,        \* what that call returned (kept until the deck changes)
    reviews,    \* how many reviews the deck has had
    summary,    \* the Summary flashcards are generated from
    genBy,      \* which generator ran last: "nlp", "offline" or "none"
    genAll,     \* the cards that generator built, before deduplication
    genOut,     \* the cards it returned
    lastOp,     \* the operation that acted last
    trSentences, \* textRank: the sentences parameter
    trTopN,     \* textRank: the topN parameter
    trMatrix,   \* textRank: the similarity matrix, in thousandths
    trScores,   \* textRank: scores, in millionths
    trDeltas,   \* textRank: the delta of every round run so far
    trPc,       \* textRank: "start", "loop", "sort" or "done"
    trResult,   \* textRank: the indices returned
    saText,     \* analyzeSentiment: the text parameter
    saWords,    \* analyzeSentiment: words
    saContribs, \* analyzeSentiment: what each word added to score
    saScore,    \* analyzeSentiment: score after the scan
    saCount,    \* analyzeSentiment: wordCount after the scan
    saResult,   \* analyzeSentiment: the value returned, num / den
    aiSentences, \* extractActionItems: the sentences parameter
    aiItems,    \* extractActionItems: the items returned
    aiFrom,     \* extractActionItems: the sentence and cue of each item
    fuTopics,   \* generateFollowUps: the topics parameter
    fuK,        \* generateFollowUps: the position of the topic at hand
    fuIdx,      \* generateFollowUps: idx
    fuUsed,     \* generateFollowUps: usedStarters
    fuPicked,   \* generateFollowUps: the idx each pushed question used
    fuOut,      \* generateFollowUps: followUps
    fuPc,       \* generateFollowUps: "idle", "for", "while" or "done"
    fuResult,   \* generateFollowUps: the value returned
    smTranscript, \* summarize: the transcript parameter
    smSentences, \* summarize: sentences
    smRanked,   \* summarize: highlightIndices as textRank returned them
    smResult,   \* summarize: the AiSummaryResult returned
    ckText,     \* chunkText: the text parameter
    ckMax,      \* chunkText: the maxChars parameter
    ckChunks,   \* chunkText: the value returned
    stCards,    \* FlashcardsRepo: the flashcards table
    stSession,  \* flashcards store: studySession, <<>> for null
    stStart,    \* startStudy calls awaiting FlashcardsRepo.getDue
    stCalls,    \* rateCard calls awaiting a FlashcardsRepo promise
    stLog,      \* the card ids passed to updateSRS since the last startStudy
    stPosition, \* the index rateCard last moved the session to since then
    stEnded,    \* endStudy was called and startStudy has not run since
    stDueCount, \* flashcards store: dueCount
    ntNotes,    \* notes store: notes
    ntPending,  \* notes store: pendingNoteDelete, <<>> for null
    ntTimer,    \* notes store: _deleteTimer is set
    ntDeleted,  \* the note ids NotesRepo.delete was called with
    ntRestored, \* the ids of the notes undoDeleteNote has put back
    wvWaveform, \* recording store: waveform
    wvAppended  \* the amplitudes appended since the last reset

srsVars  == <<card, prev, rated, upd>>
deckVars == <<deck, dueIn, dueAt, due, reviews>>
genVars  == <<summary, genBy, genAll, genOut>>
rankVars == <<trSentences, trTopN, trMatrix, trScores, trDeltas, trPc,
             trResult>>
sentVars == <<saText, saWords, saContribs, saScore, saCount, saResult>>
actVars  == <<aiSentences, aiItems, aiFrom>>
followVars == <<fuTopics, fuK, fuIdx, fuUsed, fuPicked, fuOut, fuPc, fuResult>>
sumVars == <<smTranscript, smSentences, smRanked, smResult>>
chunkVars == <<ckText, ckMax, ckChunks>>
studyVars == <<stCards, stSession, stStart, stCalls, stLog, stPosition,
               stEnded, stDueCount>>
notesVars == <<ntNotes, ntPending, ntTimer, ntDeleted, ntRestored>>
waveVars == <<wvWaveform, wvAppended>>
restVars == <<chunkVars, studyVars, notesVars, waveVars>>
moreVars == <<followVars, sumVars, restVars>>
textVars == <<rankVars, sentVars, actVars, moreVars>>
appVars  == <<now, srsVars, deckVars, genVars, lastOp>>
vars     == <<now, card, prev, rated, upd, deck, dueIn, dueAt, due, reviews,
             summary, genBy, genAll, genOut, lastOp, textVars>>

----------------------------------------------------------------------------
(* Bounds of the model *)

MaxNow == 2
MaxInterval == 20
MaxEasiness == 2700
MaxRepetitions == 6
MaxDeck == 3
MaxReviews == 2
MaxGenDeck == 8

(* Program constants *)

MaxClozeCards == 10
MaxTermDefCards == 10
MaxTags == 3
MaxQuestionTokens == 5
MinQuestionTokens == 3
MS_PER_DAY == 86400000
MIN_EASINESS == 1300
DefaultEasiness == 2500
DefaultDifficulty == 3

Ratings == 0..5

----------------------------------------------------------------------------
(* Arithmetic *)

Max(a, b) == IF a >= b THEN a ELSE b
Min(a, b) == IF a <= b THEN a ELSE b

\* Math.round(num / den), den > 0: the nearest integer, a tie going up.
MathRound(num, den) == (2 * num + den) \div (2 * den)

\* 0.1 - (5 - rating) * (0.08 + (5 - rating) * 0.02), in thousandths.
EasinessDelta(rating) == 100 - (5 - rating) * (80 + (5 - rating) * 20)

\* Math.round(easiness * 100) / 100, in thousandths.
RoundTo2dp(easiness) == MathRound(easiness, 10) * 10

----------------------------------------------------------------------------
(* JavaScript strings.  A string is a TLA+ string; its i-th character is  *)
(* the one-character string CharAt(s, i).  The model's texts are ASCII.    *)

CharAt(s, i) == SubSeq(s, i, i)

UpperChars == "ABCDEFGHIJKLMNOPQRSTUVWXYZ"
LowerChars == "abcdefghijklmnopqrstuvwxyz"
DigitChars == "0123456789_"

CharsOf(chars) == { CharAt(chars, i) : i \in 1..Len(chars) }

UpperSet == CharsOf(UpperChars)
LowerSet == CharsOf(LowerChars)
WordSet  == UpperSet \cup LowerSet \cup CharsOf(DigitChars)

\* /\s/
IsSpace(c) == c \in {" ", "\t", "\n"}
\* /\w/
IsWordChar(c) == c \in WordSet

LowerTable ==
    [c \in UpperSet |->
        CharAt(LowerChars, CHOOSE i \in 1..26 : CharAt(UpperChars, i) = c)]

LowerOfChar(c) == IF c \in UpperSet THEN LowerTable[c] ELSE c

\* String.prototype.toLowerCase, character by character (the string is
\* halved so that long texts do not nest deeply)
RECURSIVE toLowerCase(_)
toLowerCase(s) ==
    IF s = "" THEN ""
    ELSE IF Len(s) = 1 THEN LowerOfChar(s)
    ELSE toLowerCase(SubSeq(s, 1, Len(s) \div 2))
         \o toLowerCase(SubSeq(s, Len(s) \div 2 + 1, Len(s)))

\* String.prototype.trim
RECURSIVE trimStart(_)
trimStart(s) ==
    IF s # "" /\ IsSpace(Head(s)) THEN trimStart(Tail(s)) ELSE s

RECURSIVE trimEnd(_)
trimEnd(s) ==
    IF s # "" /\ IsSpace(CharAt(s, Len(s)))
    THEN trimEnd(SubSeq(s, 1, Len(s) - 1))
    ELSE s

trim(s) == trimEnd(trimStart(s))

\* the last position of the run of whitespace that starts at position i,
\* i - 1 when there is no whitespace at i
SpaceRunEnd(s, i) ==
    (CHOOSE j \in i..(Len(s) + 1) :
        /\ j > Len(s) \/ ~IsSpace(CharAt(s, j))
        /\ \A k \in i..(j - 1) : IsSpace(CharAt(s, k))) - 1

\* String.prototype.split(separator): the pieces of s between the matches
\* of the separator, seps being the matches as [from, to] position pairs
SepAt(seps, k) ==
    CHOOSE sp \in seps : Cardinality({o \in seps : o.from < sp.from}) = k - 1

SplitBy(s, seps) ==
    [k \in 1..(Cardinality(seps) + 1) |->
        SubSeq(s,
               IF k = 1 THEN 1 ELSE SepAt(seps, k - 1).to + 1,
               IF k = Cardinality(seps) + 1 THEN Len(s)
               ELSE SepAt(seps, k).from - 1)]

\* String.prototype.split(/\s+/): the pieces between maximal runs of
\* whitespace; a leading or trailing run leaves an empty piece.
splitWhitespace(s) ==
    SplitBy(s, { [from |-> i, to |-> SpaceRunEnd(s, i)] :
                 i \in { p \in 1..Len(s) :
                            /\ IsSpace(CharAt(s, p))
                            /\ p = 1 \/ ~IsSpace(CharAt(s, p - 1)) } })

\* Array.prototype.slice(0, n)
slice0(seq, n) == SubSeq(seq, 1, Min(n, Len(seq)))

\* Array.prototype.join(" ")
RECURSIVE joinSpace(_)
joinSpace(seq) ==
    IF seq = <<>> THEN ""
    ELSE IF Len(seq) = 1 THEN seq[1]
    ELSE seq[1] \o " " \o joinSpace(Tail(seq))

\* String.prototype.includes
includes(s, sub) ==
    \E i \in 1..(Len(s) - Len(sub) + 1) : SubSeq(s, i, i + Len(sub) - 1) = sub

\* /^[A-Z]/
StartsUpper(s) == s # "" /\ Head(s) \in UpperSet

----------------------------------------------------------------------------
(* services/nlp/textrank.ts: tokenize, wordFrequency, extractKeywords *)

STOP_WORDS ==
    {"the", "a", "an", "and", "or", "but", "in", "on", "at", "to", "for",
     "of", "with", "by", "from", "is", "it", "its", "this", "that", "was",
     "are", "were", "be", "been", "being", "have", "has", "had", "do",
     "does", "did", "will", "would", "could", "should", "may", "might",
     "shall", "can", "not", "no", "nor", "so", "if", "then", "than", "too",
     "very", "just", "about", "above", "after", "again", "all", "also",
     "am", "any", "because", "before", "between", "both", "each", "few",
     "get", "got", "here", "how", "into", "more", "most", "much", "must",
     "my", "new", "now", "only", "other", "our", "out", "own", "same",
     "she", "some", "such", "there", "these", "they", "those", "through",
     "under", "until", "what", "when", "where", "which", "while", "who",
     "whom", "why", "you", "your", "we", "he", "her", "him", "his", "me",
     "them", "us"}

\* replace(/[^\w\s]/g, "")
RECURSIVE stripPunctuation(_)
stripPunctuation(s) ==
    IF s = "" THEN ""
    ELSE IF Len(s) = 1
    THEN (IF IsWordChar(s) \/ IsSpace(s) THEN s ELSE "")
    ELSE stripPunctuation(SubSeq(s, 1, Len(s) \div 2))
         \o stripPunctuation(SubSeq(s, Len(s) \div 2 + 1, Len(s)))

tokenize(text) ==
    SelectSeq(splitWhitespace(stripPunctuation(toLowerCase(text))),
              LAMBDA w : Len(w) > 2 /\ w \notin STOP_WORDS)

\* how often w occurs in tokens
CountOf(tokens, w) == Cardinality({i \in 1..Len(tokens) : tokens[i] = w})

\* the Map's keys: the distinct tokens in the order they first occur
RECURSIVE DistinctInOrder(_, _)
DistinctInOrder(tokens, seenWords) ==
    IF tokens = <<>> THEN <<>>
    ELSE IF Head(tokens) \in seenWords
         THEN DistinctInOrder(Tail(tokens), seenWords)
         ELSE <<Head(tokens)>>
              \o DistinctInOrder(Tail(tokens), seenWords \cup {Head(tokens)})

\* [...freq.entries()].sort((a, b) => b[1] - a[1]): descending by count, the
\* sort being stable (entries of equal count keep their order)
RECURSIVE SortByCount(_, _)
SortByCount(words, tokens) ==
    IF words = <<>> THEN <<>>
    ELSE LET best == CHOOSE i \in 1..Len(words) :
                        /\ \A j \in 1..Len(words) :
                              CountOf(tokens, words[j]) <= CountOf(tokens, words[i])
                        /\ \A j \in 1..(i - 1) :
                              CountOf(tokens, words[j]) < CountOf(tokens, words[i])
         IN  <<words[best]>>
             \o SortByCount(SubSeq(words, 1, best - 1)
                            \o SubSeq(words, best + 1, Len(words)), tokens)

extractKeywords(text, topN) ==
    LET tokens == tokenize(text)
    IN  slice0(SortByCount(DistinctInOrder(tokens, {}), tokens), topN)

\* new RegExp(`\\b${keyword}\\b`, "gi") matches s at position i; the keyword
\* is made of lower-case word characters, which escapeRegex leaves as they are
MatchesWordAt(s, i, keyword) ==
    /\ i + Len(keyword) - 1 <= Len(s)
    /\ toLowerCase(SubSeq(s, i, i + Len(keyword) - 1)) = keyword
    /\ (i = 1 \/ ~IsWordChar(CharAt(s, i - 1)))
    /\ (i + Len(keyword) > Len(s) \/ ~IsWordChar(CharAt(s, i + Len(keyword))))

\* regex.test(sentence)
testWord(s, keyword) == \E i \in 1..Len(s) : MatchesWordAt(s, i, keyword)

\* sentence.replace(regex, "[___]")
RECURSIVE ReplaceFrom(_, _, _)
ReplaceFrom(s, i, keyword) ==
    IF i > Len(s) THEN ""
    ELSE IF MatchesWordAt(s, i, keyword)
         THEN "[___]" \o ReplaceFrom(s, i + Len(keyword), keyword)
         ELSE CharAt(s, i) \o ReplaceFrom(s, i + 1, keyword)

replaceWord(s, keyword) == ReplaceFrom(s, 1, keyword)

----------------------------------------------------------------------------
(* services/nlp/flashcardGenerator.ts: makeCard *)

makeCardDueNextDay(id, noteId, type, front, back, tags, t) ==
    [id |-> id, noteId |-> noteId, type |-> type, front |-> front,
     back |-> back, tags |-> tags, difficulty |-> 3, interval |-> 1,
     repetitions |-> 0, easiness |-> 2500, nextReviewAt |-> t + 86400000,
     createdAt |-> t, updatedAt |-> t]
makeCard(id, noteId, type, front, back, tags, t) ==
    [id |-> id, noteId |-> noteId, type |-> type, front |-> front,
     back |-> back, tags |-> tags,
     difficulty |-> DefaultDifficulty,
     interval |-> 0,
     repetitions |-> 0,
     easiness |-> DefaultEasiness,
     nextReviewAt |-> t,
     createdAt |-> t,
     updatedAt |-> t]

----------------------------------------------------------------------------
(* services/nlp/srs.ts: computeSRS *)

FlooredEasinessNoFloor(c, rating) == c.easiness + EasinessDelta(rating)
FlooredEasiness(c, rating) ==
    LET easiness == c.easiness + EasinessDelta(rating)
    IN  IF easiness < MIN_EASINESS THEN MIN_EASINESS ELSE easiness

NextRepetitionsKeepsOnFail(c, rating) == c.repetitions + 1
NextRepetitions(c, rating) ==
    IF rating < 3 THEN 0 ELSE c.repetitions + 1

NextIntervalRoundedEasiness(c, rating) ==
    IF rating < 3 THEN 0
    ELSE IF c.repetitions + 1 = 1 THEN 1
    ELSE IF c.repetitions + 1 = 2 THEN 6
    ELSE MathRound(c.interval * RoundTo2dp(FlooredEasiness(c, rating)), 1000)
\* the interval chosen by the repetitions the card had before the review
NextIntervalByOldRepetitions(c, rating) ==
    IF rating < 3 THEN 0
    ELSE IF c.repetitions = 1 THEN 1
    ELSE IF c.repetitions = 2 THEN 6
    ELSE MathRound(c.interval * FlooredEasiness(c, rating), 1000)
NextInterval(c, rating) ==
    LET easiness    == FlooredEasiness(c, rating)
        repetitions == NextRepetitions(c, rating)
    IN  IF rating < 3 THEN 0
        ELSE IF repetitions = 1 THEN 1
        ELSE IF repetitions = 2 THEN 6
        ELSE MathRound(c.interval * easiness, 1000)

DifficultyUnclamped(rating) == 5 - rating + 1
DifficultyIsRating(rating) == rating
Difficulty(rating) == Max(1, Min(5, 5 - rating + 1))

NextReviewAtInDays(t, interval) == t + interval
NextReviewAt(t, interval) == t + interval * MS_PER_DAY

computeSRS(c, rating, t) ==
    [id |-> c.id,
     difficulty |-> Difficulty(rating),
     interval |-> NextInterval(c, rating),
     repetitions |-> NextRepetitions(c, rating),
     easiness |-> RoundTo2dp(FlooredEasiness(c, rating)),
     nextReviewAt |-> NextReviewAt(t, NextInterval(c, rating)),
     updatedAt |-> t]

\* data/repos/FlashcardsRepo.ts: updateSRS, the row after the UPDATE
updateSRS(c, u) ==
    [c EXCEPT !.difficulty = u.difficulty,
              !.interval = u.interval,
              !.repetitions = u.repetitions,
              !.easiness = u.easiness,
              !.nextReviewAt = u.nextReviewAt,
              !.updatedAt = u.updatedAt]

----------------------------------------------------------------------------
(* services/nlp/srs.ts: filterDueCards *)

RECURSIVE FilterSeq(_, _)
FilterSeq(s, t) ==
    IF s = <<>> THEN <<>>
    ELSE (IF Head(s).nextReviewAt <= t THEN <<Head(s)>> ELSE <<>>)
         \o FilterSeq(Tail(s), t)

filterDueCardsStrict(cards, t) ==
    SelectSeq(cards, LAMBDA c : c.nextReviewAt < t)
filterDueCards(cards, t) == FilterSeq(cards, t)

----------------------------------------------------------------------------
(* The scheduler reviewing one card *)

NoUpdate == [id |-> 0]

TheCard == makeCard(1, "note-1", "qa", "Q", "A", <<>>, 0)

\* Card states a caller may hand to computeSRS.
AnyCards ==
    { [TheCard EXCEPT !.easiness = e, !.interval = i, !.repetitions = n,
                      !.difficulty = d]
        : e \in {1000, 1300, 1304, 2496, 2500},
          i \in {0, 1, 6, 7, 15},
          n \in {0, 1, 2, 3},
          d \in {1, 3} }

NoSummary ==
    [keyPoints |-> <<>>, highlights |-> <<>>, topics |-> <<>>,
     actionItems |-> <<>>]

GenIdle ==
    /\ summary = NoSummary
    /\ genBy = "none"
    /\ genAll = <<>>
    /\ genOut = <<>>

RankIdle ==
    /\ trSentences = <<>>
    /\ trTopN = 0
    /\ trMatrix = <<>>
    /\ trScores = <<>>
    /\ trDeltas = <<>>
    /\ trPc = "done"
    /\ trResult = <<>>

SentIdle ==
    /\ saText = ""
    /\ saWords = <<>>
    /\ saContribs = <<>>
    /\ saScore = 0
    /\ saCount = 0
    /\ saResult = [num |-> 0, den |-> 1]

ActIdle ==
    /\ aiSentences = <<>>
    /\ aiItems = <<>>
    /\ aiFrom = <<>>

FollowIdle ==
    /\ fuTopics = <<>>
    /\ fuK = 0
    /\ fuIdx = 0
    /\ fuUsed = {}
    /\ fuPicked = <<>>
    /\ fuOut = <<>>
    /\ fuPc = "idle"
    /\ fuResult = <<>>

NoResult ==
    [tldr |-> <<>>, keyPoints |-> <<>>, decisions |-> <<>>,
     actionItems |-> <<>>, openQuestions |-> <<>>, topics |-> <<>>,
     highlights |-> <<>>, followUps |-> <<>>, sentimentBySegment |-> <<>>]

SumIdle ==
    /\ smTranscript = ""
    /\ smSentences = <<>>
    /\ smRanked = <<>>
    /\ smResult = NoResult

ChunkIdle ==
    /\ ckText = ""
    /\ ckMax = 0
    /\ ckChunks = <<>>

StudyIdle ==
    /\ stCards = <<>>
    /\ stSession = <<>>
    /\ stStart = <<>>
    /\ stCalls = <<>>
    /\ stLog = <<>>
    /\ stPosition = 0
    /\ stEnded = FALSE
    /\ stDueCount = 0

NotesIdle ==
    /\ ntNotes = <<>>
    /\ ntPending = <<>>
    /\ ntTimer = FALSE
    /\ ntDeleted = {}
    /\ ntRestored = {}

WaveIdle ==
    /\ wvWaveform = <<>>
    /\ wvAppended = <<>>

RestIdle == ChunkIdle /\ StudyIdle /\ NotesIdle /\ WaveIdle

MoreIdle == FollowIdle /\ SumIdle /\ RestIdle

TextIdle == RankIdle /\ SentIdle /\ ActIdle /\ MoreIdle

DeckIdle ==
    /\ deck = <<>>
    /\ dueIn = <<>>
    /\ dueAt = 0
    /\ due = <<>>
    /\ reviews = 0

InitSRS ==
    /\ now = 0
    /\ card = TheCard
    /\ prev = TheCard
    /\ rated = -1
    /\ upd = NoUpdate
    /\ lastOp = "init"
    /\ DeckIdle
    /\ TextIdle
    /\ GenIdle

InitSRSAny ==
    /\ now = 0
    /\ card \in AnyCards
    /\ prev = card
    /\ rated = -1
    /\ upd = NoUpdate
    /\ lastOp = "init"
    /\ DeckIdle
    /\ TextIdle
    /\ GenIdle

\* store/useFlashcardsStore.ts rateCard: computeSRS, then FlashcardsRepo.updateSRS
Review(rating) ==
    LET u == computeSRS(card, rating, now)
    IN  /\ NextInterval(card, rating) <= MaxInterval
        /\ RoundTo2dp(FlooredEasiness(card, rating)) <= MaxEasiness
        /\ NextRepetitions(card, rating) <= MaxRepetitions
        /\ prev' = card
        /\ rated' = rating
        /\ upd' = u
        /\ card' = updateSRS(card, u)
        /\ lastOp' = "review"
        /\ UNCHANGED <<textVars, now, deckVars, genVars>>

\* the clock advances
Tick ==
    /\ now < MaxNow
    /\ now' = now + 1
    /\ lastOp' = "tick"
    /\ UNCHANGED <<textVars, srsVars, deckVars, genVars>>

NextSRS ==
    \/ \E rating \in Ratings : Review(rating)
    \/ Tick

SpecSRS == InitSRS /\ [][NextSRS]_vars

SpecSRSAny == InitSRSAny /\ [][NextSRS]_vars

----------------------------------------------------------------------------
(* Claims about the scheduler *)

Reviewed == rated \in Ratings

\* The easiness change of each rating, in thousandths, as a table.
DeltaTable == <<-800, -540, -320, -140, 0, 100>>
ExpectedEasiness(c, rating) ==
    Max(1300, c.easiness + DeltaTable[rating + 1])

\* C1: easiness never drops below 1.3: every computeSRS call returns
\* easiness >= 1.3, and a card whose reviews are persisted (the default card
\* among them) has easiness >= 1.3 after every review.
C1_EasinessFloor ==
    Reviewed =>
        /\ upd.easiness >= 1300
        /\ card.easiness >= 1300
        /\ (prev.easiness + DeltaTable[rated + 1] < 1300 => upd.easiness = 1300)

\* C1 witness: a review whose raw easiness fell below 1.3 and was floored,
\* on a card that had already been reviewed down to the floor.
C1_Witness ==
    /\ Reviewed
    /\ prev.easiness = 1300
    /\ prev.easiness + DeltaTable[rated + 1] < 1300
    /\ upd.easiness = 1300

\* C2: a failing rating (0, 1 or 2) resets repetitions and interval to 0,
\* whatever the card's state was.
C2_FailResets ==
    rated \in {0, 1, 2} => upd.repetitions = 0 /\ upd.interval = 0

\* C2 witness: a failing review of a card with 3 repetitions and a 15 day
\* interval.
C2_Witness ==
    /\ rated \in {0, 1, 2}
    /\ prev.repetitions = 3
    /\ prev.interval = 15
    /\ upd.repetitions = 0
    /\ upd.interval = 0

\* k is x rounded to the nearest integer (a tie going up), x = num / 1000.
IsRounded(k, num) == 2 * num - 1000 < 2 * k * 1000 /\ 2 * k * 1000 <= 2 * num + 1000

\* C3: a passing rating (3, 4 or 5) adds one repetition; the interval is 1
\* at the first, 6 at the second and round(interval * easiness') from the
\* third on, easiness' being the updated, floored (not yet rounded) easiness.
C3_PassSchedule ==
    rated \in {3, 4, 5} =>
        /\ upd.repetitions = prev.repetitions + 1
        /\ (upd.repetitions = 1 => upd.interval = 1)
        /\ (upd.repetitions = 2 => upd.interval = 6)
        /\ (upd.repetitions >= 3 =>
                IsRounded(upd.interval,
                          prev.interval * ExpectedEasiness(prev, rated)))

\* C3 witness: a third or later pass whose interval is the rounded product,
\* on an easiness that has a third decimal.
C3_Witness ==
    /\ rated \in {3, 4, 5}
    /\ upd.repetitions >= 3
    /\ prev.interval = 7
    /\ prev.easiness = 2496
    /\ upd.interval = 17

\* C4: difficulty is clamp(5 - rating + 1, 1, 5) for each of the six
\* ratings, whatever the card's previous state.
C4_Difficulty ==
    Reviewed =>
        /\ upd.difficulty = <<5, 5, 4, 3, 2, 1>>[rated + 1]
        /\ card.difficulty = upd.difficulty

\* C4 witness: rating 0 on a card of difficulty 1 gives the clamped 5.
C4_Witness ==
    /\ rated = 0
    /\ prev.difficulty = 1
    /\ upd.difficulty = 5

\* C5: nextReviewAt is the time of the call plus interval' days, so it is
\* never before the call, and equals the time of the call after a failing
\* rating: the card is due again at once.
C5_NextReviewAt ==
    lastOp = "review" =>
        /\ upd.nextReviewAt = now + upd.interval * 86400000
        /\ upd.nextReviewAt >= now
        /\ upd.updatedAt = now
        /\ card.nextReviewAt = upd.nextReviewAt
        /\ (rated < 3 => upd.nextReviewAt = now
                         /\ filterDueCards(<<card>>, now) = <<card>>)

\* C5 witness: a second pass at a later time schedules six days ahead.
C5_Witness ==
    /\ lastOp = "review"
    /\ now = 1
    /\ upd.interval = 6
    /\ upd.nextReviewAt = 518400001

\* C7: from the default state every reachable card state has difficulty in
\* 1..5, interval >= 0 and repetitions >= 0.
C7_StateRanges ==
    /\ card.difficulty \in 1..5
    /\ card.interval \in Nat
    /\ card.repetitions \in Nat
    /\ (Reviewed => /\ upd.difficulty \in 1..5
                    /\ upd.interval \in Nat
                    /\ upd.repetitions \in Nat)

\* C7 witness: a card reviewed past its third pass, then rated 0.
C7_Witness ==
    /\ rated = 0
    /\ prev.repetitions >= 3
    /\ prev.interval > 6
    /\ card.difficulty = 5
    /\ card.interval = 0

----------------------------------------------------------------------------
(* The deck: cards are added as they are created, reviewed, and filtered  *)
(* for the ones that are due.                                              *)

SrsIdle ==
    /\ card = TheCard
    /\ prev = TheCard
    /\ rated = -1
    /\ upd = NoUpdate

InitDeck ==
    /\ now = 0
    /\ SrsIdle
    /\ DeckIdle
    /\ TextIdle
    /\ GenIdle
    /\ lastOp = "init"

\* store/useFlashcardsStore.ts addCards, with a card makeCard builds now
AddCard ==
    /\ Len(deck) < MaxDeck
    /\ deck' = deck \o <<makeCard(Len(deck) + 1, "note-1", "qa", "Q", "A",
                                   <<>>, now)>>
    /\ dueIn' = <<>> /\ dueAt' = 0 /\ due' = <<>>
    /\ lastOp' = "add"
    /\ UNCHANGED <<textVars, now, srsVars, reviews, genVars>>

\* a review of the deck's i-th card: computeSRS, then FlashcardsRepo.updateSRS
ReviewInDeck(i, rating) ==
    /\ reviews < MaxReviews
    /\ deck' = [deck EXCEPT
                  ![i] = updateSRS(deck[i], computeSRS(deck[i], rating, now))]
    /\ reviews' = reviews + 1
    /\ dueIn' = <<>> /\ dueAt' = 0 /\ due' = <<>>
    /\ lastOp' = "review"
    /\ UNCHANGED <<textVars, now, srsVars, genVars>>

\* the ratings the deck's reviews draw from: Again and Good
DeckRatings == {0, 4}

\* filterDueCards(cards, now) on the deck
FilterDue ==
    /\ dueIn' = deck
    /\ dueAt' = now
    /\ due' = filterDueCards(deck, now)
    /\ lastOp' = "filter"
    /\ UNCHANGED <<textVars, now, srsVars, deck, reviews, genVars>>

NextDeck ==
    \/ AddCard
    \/ \E i \in 1..Len(deck), rating \in DeckRatings : ReviewInDeck(i, rating)
    \/ FilterDue
    \/ Tick

SpecDeck == InitDeck /\ [][NextDeck]_vars

\* The positions of the cards of s that are due at t.
DuePositions(s, t) == { i \in 1..Len(s) : s[i].nextReviewAt <= t }

\* C6: filterDueCards returns exactly the cards with nextReviewAt <= now,
\* the one whose nextReviewAt equals now included, in their input order, and
\* leaves its input as it was.
C6_FilterDue ==
    LET P == DuePositions(dueIn, dueAt)
    IN  /\ Len(due) = Cardinality(P)
        /\ \A k \in 1..Len(due) :
              \E i \in P :
                 /\ due[k] = dueIn[i]
                 /\ Cardinality({j \in P : j < i}) = k - 1
        /\ \A i \in 1..Len(dueIn) :
              dueIn[i].nextReviewAt = dueAt =>
                 \E k \in 1..Len(due) : due[k] = dueIn[i]
        /\ (lastOp = "filter" => deck = dueIn)

\* C6 witness: three cards, the first due exactly now, the second not due
\* and the third due earlier; the call returned the first and the third.
C6_Witness ==
    /\ lastOp = "filter"
    /\ Len(dueIn) = 3
    /\ dueIn[1].nextReviewAt = dueAt
    /\ dueIn[2].nextReviewAt > dueAt
    /\ dueIn[3].nextReviewAt < dueAt
    /\ due = <<dueIn[1], dueIn[3]>>

----------------------------------------------------------------------------
(* services/nlp/flashcardGenerator.ts and OfflineProvider.generateFlashcards *)

\* what a strategy hands to makeCard: an AiFlashcardResult
Draft(type, front, back, tags) ==
    [type |-> type, front |-> front, back |-> back, tags |-> tags]

QuestionAbout(point) ==
    LET tokens == splitWhitespace(point)
    IN  IF Len(tokens) > MinQuestionTokens
        THEN "What is the key point about: \""
             \o joinSpace(slice0(tokens, MaxQuestionTokens)) \o "...\"?"
        ELSE "Explain: " \o point

\* generateQACards: the question is formed only for a key point that starts
\* with a capital letter
QAFront(point) == IF StartsUpper(point) THEN QuestionAbout(point) ELSE point

\* OfflineProvider: the question is formed for every key point
QAFrontOffline(point) == QuestionAbout(point)

generateQACards(keyPoints, topics) ==
    [i \in 1..Len(keyPoints) |->
        Draft("qa", QAFront(keyPoints[i]), keyPoints[i], slice0(topics, MaxTags))]

QACardsOffline(keyPoints, topics) ==
    [i \in 1..Len(keyPoints) |->
        Draft("qa", QAFrontOffline(keyPoints[i]), keyPoints[i],
              slice0(topics, MaxTags))]

\* the loop of generateClozeCards
RECURSIVE ClozeLoop(_, _)
ClozeLoop(sentences, topics) ==
    IF sentences = <<>> THEN <<>>
    ELSE LET sentence == Head(sentences)
             keywords == extractKeywords(sentence, 3)
         IN  (IF keywords = <<>> THEN <<>>
              ELSE IF ~testWord(sentence, keywords[1]) THEN <<>>
              ELSE <<Draft("cloze", replaceWord(sentence, keywords[1]),
                           keywords[1], slice0(topics, MaxTags))>>)
             \o ClozeLoop(Tail(sentences), topics)

generateClozeCards(sentences, topics) ==
    slice0(ClozeLoop(sentences, topics), MaxClozeCards)

\* keyPoints.find(kp => kp.toLowerCase().includes(topic.toLowerCase())):
\* the position of the first such key point, 0 when there is none
FindRelated(keyPoints, topic) ==
    LET hits == { i \in 1..Len(keyPoints) :
                    includes(toLowerCase(keyPoints[i]), toLowerCase(topic)) }
    IN  IF hits = {} THEN 0 ELSE CHOOSE i \in hits : \A j \in hits : i <= j

\* the loop of generateTermDefCards; `if (related)` is false for "" too
RECURSIVE TermDefLoop(_, _)
TermDefLoop(keyPoints, topics) ==
    IF topics = <<>> THEN <<>>
    ELSE LET topic == Head(topics)
             at    == FindRelated(keyPoints, topic)
         IN  (IF at = 0 \/ keyPoints[at] = "" THEN <<>>
              ELSE <<Draft("term-def", "Define: " \o topic, keyPoints[at],
                           <<topic>>),
                     Draft("def-term", keyPoints[at], topic, <<topic>>)>>)
             \o TermDefLoop(keyPoints, Tail(topics))

generateTermDefCards(keyPoints, topics) ==
    slice0(TermDefLoop(keyPoints, topics), MaxTermDefCards)

\* item.due ? ... : "": an absent or empty due is falsy
HasDue(item) == "due" \in DOMAIN item /\ item.due # ""

ActionFront(item) ==
    "What action item was assigned to " \o item.owner \o "?"

ActionBack(item) ==
    item.task \o (IF HasDue(item) THEN " (due: " \o item.due \o ")" ELSE "")

ActionItemCards(actionItems) ==
    [i \in 1..Len(actionItems) |->
        Draft("qa", ActionFront(actionItems[i]), ActionBack(actionItems[i]),
              <<"action-item">>)]

\* card.front.toLowerCase().trim()
FrontKeyExact(c) == c.front
FrontKey(c) == trim(toLowerCase(c.front))

\* allCards.filter(card => { if (seen.has(key)) return false; seen.add(key);
\* return true; })
RECURSIVE DedupeFrom(_, _)
DedupeFrom(cards, seen) ==
    IF cards = <<>> THEN <<>>
    ELSE IF FrontKey(Head(cards)) \in seen
         THEN DedupeFrom(Tail(cards), seen)
         ELSE <<Head(cards)>>
              \o DedupeFrom(Tail(cards), seen \cup {FrontKey(Head(cards))})

Dedupe(cards) == DedupeFrom(cards, {})

\* generateFlashcards, up to the deduplication: the drafts in the order the
\* strategies push them
AllDrafts(sm) ==
    generateQACards(sm.keyPoints, sm.topics)
    \o generateClozeCards(sm.highlights \o sm.keyPoints, sm.topics)
    \o generateTermDefCards(sm.keyPoints, sm.topics)
    \o ActionItemCards(sm.actionItems)

\* OfflineProvider.generateFlashcards with a summary, up to the deduplication
AllDraftsOffline(sm) ==
    QACardsOffline(sm.keyPoints, sm.topics)
    \o ClozeLoop(sm.highlights \o sm.keyPoints, sm.topics)
    \o TermDefLoop(sm.keyPoints, sm.topics)
    \o ActionItemCards(sm.actionItems)

\* the cards makeCard builds from the drafts: generateId gives each a fresh
\* id, Date.now() reads t0 up to the tickAt-th card and t0 + 1 after it
CardsOf(drafts, idBase, noteId, t0, tickAt) ==
    [j \in 1..Len(drafts) |->
        makeCard(idBase + j, noteId, drafts[j].type, drafts[j].front,
                 drafts[j].back, drafts[j].tags,
                 IF j <= tickAt THEN t0 ELSE t0 + 1)]

\* screens/NoteDetailScreen.tsx handleCreateFlashcards: rawCards.map(...)
CardsFromRaw(rawCards, idBase, noteId, t) ==
    [j \in 1..Len(rawCards) |->
        [id |-> idBase + j, noteId |-> noteId, type |-> rawCards[j].type,
         front |-> rawCards[j].front, back |-> rawCards[j].back,
         tags |-> rawCards[j].tags,
         difficulty |-> 3, interval |-> 0, repetitions |-> 0,
         easiness |-> 2500, nextReviewAt |-> t, createdAt |-> t,
         updatedAt |-> t]]

----------------------------------------------------------------------------
(* The summaries flashcards are generated from *)

KeyPointLists ==
    { <<>>,
      <<"Revenue grew by ten percent">>,
      <<"Revenue grew by ten percent", "Revenue grew by ten percent overall">>,
      <<"Ship it", "SHIP IT">>,
      <<"revenue grew", "Ship it">>,
      <<" Budget is set ", "Revenue grew by ten percent">>,
      <<"Explain: Ship it", "Ship it", "revenue grew">> }

HighlightLists ==
    { <<>>, <<"Revenue grew by ten percent", "We will ship it on Friday.">> }

TopicLists == { <<>>, <<"Revenue">>, <<"Budget", "Revenue">> }

Alice1 == [owner |-> "Alice", task |-> "send report", due |-> "Friday"]
Alice2 == [owner |-> "Alice", task |-> "book room"]
Bob1   == [owner |-> "Bob", task |-> "call vendor", due |-> ""]
Alice3 == [owner |-> "ALICE", task |-> "review budget", due |-> "tomorrow"]

ActionItemLists ==
    { <<>>, <<Alice1>>, <<Alice1, Bob1>>, <<Alice1, Alice2>>,
      <<Bob1, Alice2, Alice3>> }

Summaries ==
    { [keyPoints |-> k, highlights |-> h, topics |-> t, actionItems |-> a]
        : k \in KeyPointLists, h \in HighlightLists, t \in TopicLists,
          a \in ActionItemLists }

InitGen ==
    /\ now = 0
    /\ SrsIdle
    /\ DeckIdle
    /\ TextIdle
    /\ summary \in Summaries
    /\ genBy = "none"
    /\ genAll = <<>>
    /\ genOut = <<>>
    /\ lastOp = "init"

\* where the clock may tick during a call that builds n cards: before the
\* first card, after the first, or not at all
TickPoints(n) == {0, 1, n} \cap 0..n

\* generateFlashcards(noteId, summary, segments) of the nlp generator
GenerateNlp ==
    \E drafts \in {AllDrafts(summary)} :
      \E tickAt \in TickPoints(Len(drafts)) :
        \E allCards \in {CardsOf(drafts, 0, "note-1", now, tickAt)} :
           /\ tickAt < Len(drafts) => now < MaxNow
           /\ genAll' = allCards
           /\ genOut' = Dedupe(allCards)
           /\ genBy' = "nlp"
           /\ now' = IF tickAt < Len(drafts) THEN now + 1 ELSE now
           /\ lastOp' = "generate"
           /\ UNCHANGED <<textVars, srsVars, deckVars, summary>>

\* handleCreateFlashcards with the offline provider:
\* OfflineProvider.generateFlashcards, the cards built from its result, addCards
CreateFlashcardsOffline ==
    \E drafts \in {AllDraftsOffline(summary)} :
      \E rawCards \in {Dedupe(drafts)} :
        /\ deck = <<>> \/ Len(deck) + Len(rawCards) <= MaxGenDeck
        /\ genAll' = drafts
        /\ genOut' = rawCards
        /\ genBy' = "offline"
        /\ deck' = IF rawCards = <<>> THEN deck
                   ELSE deck \o CardsFromRaw(rawCards, Len(deck), "note-1", now)
        /\ dueIn' = <<>> /\ dueAt' = 0 /\ due' = <<>>
        /\ lastOp' = "create"
        /\ UNCHANGED <<textVars, now, srsVars, reviews, summary>>

NextGen ==
    \/ GenerateNlp
    \/ CreateFlashcardsOffline
    \/ Tick

SpecGen == InitGen /\ [][NextGen]_vars

\* Summaries with many short sentences and topics: each key point names one
\* topic, every sentence has a keyword, and all fronts differ.
ManyKeyPoints ==
    <<"Alpha one", "Bravo two", "Delta three", "Gamma four", "Kappa five",
      "Sigma six">>

ManyTopics == <<"alpha", "bravo", "delta", "gamma", "kappa", "sigma">>

ManyHighlights == <<"task 1", "task 2", "task 3", "task 4", "task 5">>

ManySummaries ==
    { [keyPoints |-> slice0(ManyKeyPoints, k),
       highlights |-> slice0(ManyHighlights, h),
       topics |-> slice0(ManyTopics, t),
       actionItems |-> a]
        : k \in {4, 5, 6}, h \in {4, 5}, t \in {5, 6},
          a \in {<<>>, <<Alice1>>} }

InitGenMany ==
    /\ now = 0
    /\ SrsIdle
    /\ DeckIdle
    /\ TextIdle
    /\ summary \in ManySummaries
    /\ genBy = "none"
    /\ genAll = <<>>
    /\ genOut = <<>>
    /\ lastOp = "init"

SpecGenMany == InitGenMany /\ [][NextGen]_vars

----------------------------------------------------------------------------
(* Claims about flashcard generation *)

Generated == genBy \in {"nlp", "offline"}

\* a card is in its default SRS state, created at its own creation time
IsFresh(c) ==
    /\ c.difficulty = 3
    /\ c.interval = 0
    /\ c.repetitions = 0
    /\ c.easiness = 2500
    /\ c.nextReviewAt = c.createdAt

IsIn(c, cards) == \E k \in 1..Len(cards) : cards[k] = c

\* C8: every card the generator makes starts in the default SRS state
\* (difficulty 3, interval 0, repetitions 0, easiness 2.5) with nextReviewAt
\* its creation time, a reading of the clock during the call, so
\* filterDueCards selects it at its creation time.
C8_FreshCards ==
    /\ genBy = "nlp" =>
          \A k \in 1..Len(genOut) :
             /\ IsFresh(genOut[k])
             /\ IsIn(genOut[k], filterDueCards(genOut, genOut[k].createdAt))
             /\ genOut[k].createdAt <= now
             /\ (lastOp = "generate" => genOut[k].createdAt >= now - 1)
    /\ \A k \in 1..Len(deck) :
          /\ IsFresh(deck[k])
          /\ IsIn(deck[k], filterDueCards(deck, deck[k].createdAt))
          /\ deck[k].createdAt <= now

\* C8 witness: a call of the nlp generator during which the clock ticked;
\* the first card was created at 0 and the second at 1, each due when made.
C8_Witness ==
    /\ genBy = "nlp"
    /\ lastOp = "generate"
    /\ Len(genOut) >= 2
    /\ genOut[1].nextReviewAt = 0
    /\ genOut[2].nextReviewAt = 1
    /\ filterDueCards(genOut, 0) = <<genOut[1]>>

\* a front text lower-cased and trimmed
NormalFront(c) == trim(toLowerCase(c.front))

\* the positions of genAll whose normalized front no earlier position has
FirstOfFront ==
    { k \in 1..Len(genAll) :
        \A j \in 1..(k - 1) : NormalFront(genAll[j]) # NormalFront(genAll[k]) }

\* C9: the output of either generator holds no two cards whose fronts are
\* equal after lower-casing and trimming; of the generated cards sharing a
\* normalized front exactly the first is kept, and the kept cards are in
\* generation order.
C9_NoDuplicateFronts ==
    Generated =>
        /\ \A i, j \in 1..Len(genOut) :
              i # j => NormalFront(genOut[i]) # NormalFront(genOut[j])
        /\ Len(genOut) = Cardinality(FirstOfFront)
        /\ \A k \in FirstOfFront :
              genOut[Cardinality({j \in FirstOfFront : j <= k})] = genAll[k]

\* C9 witness: two generated cards whose fronts differ only in case; the
\* second was dropped and cards after it were kept.
C9_Witness ==
    /\ Generated
    /\ \E i, j \in 1..Len(genAll) :
          /\ i < j
          /\ j < Len(genAll)
          /\ genAll[i].front # genAll[j].front
          /\ NormalFront(genAll[i]) = NormalFront(genAll[j])
          /\ i \in FirstOfFront
    /\ Len(genOut) < Len(genAll)
    /\ Len(genOut) >= 3

\* the output's cards tagged "action-item"
ActionCards ==
    { k \in 1..Len(genOut) :
        \E t \in 1..Len(genOut[k].tags) : genOut[k].tags[t] = "action-item" }

\* C10: for every action item of the summary the output holds a card tagged
\* "action-item" asking "What action item was assigned to <owner>?" whose
\* back is the item's task (with " (due: <due>)" when a due is present), so
\* there are as many action-item cards as action items.
C10_OneCardPerActionItem ==
    Generated =>
        /\ \A i \in 1..Len(summary.actionItems) :
              LET item == summary.actionItems[i]
              IN  \E k \in ActionCards :
                     /\ genOut[k].type = "qa"
                     /\ genOut[k].front =
                           "What action item was assigned to " \o item.owner \o "?"
                     /\ genOut[k].back =
                           IF "due" \in DOMAIN item /\ item.due # ""
                           THEN item.task \o " (due: " \o item.due \o ")"
                           ELSE item.task
        /\ Cardinality(ActionCards) = Len(summary.actionItems)

----------------------------------------------------------------------------
(* Claims about the card strategies *)

CardsOfType(cards, types) == { k \in 1..Len(cards) : cards[k].type \in types }

\* C11: flashcard generation returns at most 10 cloze cards, in the nlp
\* generator and in OfflineProvider.generateFlashcards, however many
\* highlights and key points the summary has.
C11_ClozeCap ==
    Generated => Cardinality(CardsOfType(genOut, {"cloze"})) <= 10

\* the first key point, in order, that contains the topic ignoring case
FirstKeyPointWith(keyPoints, topic) ==
    LET hits == { i \in 1..Len(keyPoints) :
                    includes(toLowerCase(keyPoints[i]), toLowerCase(topic)) }
    IN  IF hits = {} THEN ""
        ELSE keyPoints[CHOOSE i \in hits : \A j \in hits : i <= j]

\* C12: flashcard generation returns at most 10 term-def and def-term cards
\* together, in both generators, however many topics the summary has; and
\* each term-def card of a topic has as its back the first key point that
\* contains the topic ignoring case.
C12_TermDefCap ==
    Generated =>
        /\ Cardinality(CardsOfType(genOut, {"term-def", "def-term"})) <= 10
        /\ \A k \in CardsOfType(genOut, {"term-def"}) :
              /\ genOut[k].front = "Define: " \o genOut[k].tags[1]
              /\ genOut[k].back =
                    FirstKeyPointWith(summary.keyPoints, genOut[k].tags[1])

\* the front the QA strategy is said to give a key point
QuestionFor(point) ==
    LET tokens == splitWhitespace(point)
    IN  IF Len(tokens) > 3
        THEN "What is the key point about: \""
             \o joinSpace(SubSeq(tokens, 1, Min(5, Len(tokens)))) \o "...\"?"
        ELSE "Explain: " \o point

\* C13: for every key point the QA strategy makes a card whose back is the
\* key point verbatim and whose front is the "What is the key point about"
\* question when the key point has more than 3 tokens and "Explain: <key
\* point>" otherwise, whatever the key point's first character, in both
\* generators.
C13_QAFront ==
    Generated =>
        \A i \in 1..Len(summary.keyPoints) :
           /\ i <= Len(genAll)
           /\ genAll[i].type = "qa"
           /\ genAll[i].back = summary.keyPoints[i]
           /\ genAll[i].front = QuestionFor(summary.keyPoints[i])

----------------------------------------------------------------------------
(* Sentence ranking: textRank.  Similarities are held in thousandths and
   scores in millionths; on every input below the rounds run and the indices
   returned are those of the code's double arithmetic. *)

MaxTopN == 3

damping == 85
maxIter == 50
threshold == 100
ScoreScale == 1000000
SimScale == 1000

Abs(x) == IF x >= 0 THEN x ELSE -x

RECURSIVE SumSeq(_)
SumSeq(s) == IF s = <<>> THEN 0 ELSE Head(s) + SumSeq(Tail(s))

RECURSIVE SumFn(_)
SumFn(f) ==
    IF DOMAIN f = {} THEN 0
    ELSE LET k == CHOOSE x \in DOMAIN f : TRUE
         IN  f[k] + SumFn([x \in DOMAIN f \ {k} |-> f[x]])

\* floor(Math.sqrt(x)), searched between lo and hi
RECURSIVE SqrtBetween(_, _, _)
SqrtBetween(x, lo, hi) ==
    IF lo >= hi THEN lo
    ELSE LET mid == (lo + hi + 1) \div 2
         IN  IF mid * mid <= x THEN SqrtBetween(x, mid, hi)
             ELSE SqrtBetween(x, lo, mid - 1)

Sqrt(x) == SqrtBetween(x, 0, 46340)

\* wordFrequency: the map from each token to its count
wordFrequency(tokens) ==
    [w \in {tokens[i] : i \in 1..Len(tokens)} |-> CountOf(tokens, w)]

\* cosineSimilarity of two frequency maps, in thousandths
cosineSimilarity(a, b) ==
    LET allKeys == DOMAIN a \cup DOMAIN b
        va(key) == IF key \in DOMAIN a THEN a[key] ELSE 0
        vb(key) == IF key \in DOMAIN b THEN b[key] ELSE 0
        dotProduct == SumFn([key \in allKeys |-> va(key) * vb(key)])
        magA == SumFn([key \in allKeys |-> va(key) * va(key)])
        magB == SumFn([key \in allKeys |-> vb(key) * vb(key)])
    IN  IF magA = 0 \/ magB = 0 THEN 0
        ELSE (dotProduct * SimScale * SimScale)
                \div Sqrt(magA * magB * SimScale * SimScale)

\* textRank: the adjacency matrix, zero on the diagonal
SimilarityMatrix(sents) ==
    LET n == Len(sents)
        freqs == [i \in 1..n |-> wordFrequency(tokenize(sents[i]))]
    IN  [i \in 1..n |->
           [j \in 1..n |->
              IF i = j THEN 0
              ELSE cosineSimilarity(freqs[Min(i, j)], freqs[Max(i, j)])]]

\* textRank: newScores[i] of one round
NewScore(m, sc, i) ==
    LET n == Len(sc)
        sum == SumSeq([j \in 1..n |->
                         IF j = i THEN 0
                         ELSE LET outSum == SumSeq(m[j])
                              IN  IF outSum > 0
                                  THEN (m[j][i] * sc[j]) \div outSum
                                  ELSE 0])
    IN  ((100 - damping) * (ScoreScale \div 100)) \div n
          + (damping * sum) \div 100

NewScores(m, sc) == [i \in 1..Len(sc) |-> NewScore(m, sc, i)]

\* textRank: delta of one round
Delta(newScores, sc) ==
    SumSeq([i \in 1..Len(sc) |-> Abs(newScores[i] - sc[i])])

\* textRank: whether the loop ends after the round numbered iter (from 1)
LoopExitsAtLimitOnly(delta, iter) == iter >= maxIter
LoopExits(delta, iter) == delta < threshold \/ iter >= maxIter

\* indexed.sort((a, b) => b.score - a.score): stable, descending; the
\* indices are the code's, from 0
SortedIndices(sc) ==
    LET n == Len(sc)
        before(i) == { j \in 1..n : sc[j] > sc[i] \/ (sc[j] = sc[i] /\ j < i) }
    IN  [p \in 1..n |->
           (CHOOSE i \in 1..n : Cardinality(before(i)) = p - 1) - 1]

TopIndicesUnsliced(sc, topN) == SortedIndices(sc)
TopIndices(sc, topN) == slice0(SortedIndices(sc), topN)

SentenceLists ==
    { <<>>,
      <<"cat dog">>,
      <<"cat dog", "dog fox">>,
      <<"cat dog", "dog fox", "fox">>,
      <<"cat dog", "dog", "emu">>,
      <<"", "", "">>,
      <<"cat", "cat", "cat">>,
      <<"cat dog", "dog fox", "fox emu", "emu">>,
      <<"Cat.", "", "cat dog", "dog">> }

\* the matrix textRank builds for each list, computed once
MatrixOf == [sents \in SentenceLists |-> SimilarityMatrix(sents)]

InitRank ==
    /\ now = 0
    /\ SrsIdle
    /\ DeckIdle
    /\ GenIdle
    /\ SentIdle
    /\ ActIdle
    /\ MoreIdle
    /\ lastOp = "init"
    /\ trSentences \in SentenceLists
    /\ trTopN \in 0..MaxTopN
    /\ trMatrix = <<>>
    /\ trScores = <<>>
    /\ trDeltas = <<>>
    /\ trPc = "start"
    /\ trResult = <<>>

\* textRank up to the loop: the two early returns, or the matrix and the
\* initial scores
TextRankStart ==
    /\ trPc = "start"
    /\ \E n \in {Len(trSentences)} :
          IF n = 0
          THEN /\ trResult' = <<>>
               /\ trPc' = "done"
               /\ UNCHANGED <<trMatrix, trScores>>
          ELSE IF n <= trTopN
          THEN /\ trResult' = [i \in 1..n |-> i - 1]
               /\ trPc' = "done"
               /\ UNCHANGED <<trMatrix, trScores>>
          ELSE /\ trMatrix' = MatrixOf[trSentences]
               /\ trScores' = [i \in 1..n |-> ScoreScale \div n]
               /\ trPc' = "loop"
               /\ UNCHANGED trResult
    /\ lastOp' = "textRank"
    /\ UNCHANGED <<now, srsVars, deckVars, genVars, sentVars, actVars,
                   moreVars, trSentences, trTopN, trDeltas>>

\* one round of the PageRank loop
TextRankRound ==
    /\ trPc = "loop"
    /\ Len(trDeltas) < maxIter
    /\ \E newScores \in {NewScores(trMatrix, trScores)} :
         \E delta \in {Delta(newScores, trScores)} :
            /\ trScores' = newScores
            /\ trDeltas' = Append(trDeltas, delta)
            /\ trPc' = IF LoopExits(delta, Len(trDeltas) + 1)
                       THEN "sort" ELSE "loop"
    /\ UNCHANGED <<appVars, sentVars, actVars, moreVars, trSentences, trTopN,
                   trMatrix,
                   trResult>>

\* the sort and the slice after the loop
TextRankReturn ==
    /\ trPc = "sort"
    /\ trResult' = TopIndices(trScores, trTopN)
    /\ trPc' = "done"
    /\ UNCHANGED <<appVars, sentVars, actVars, moreVars, trSentences, trTopN,
                   trMatrix,
                   trScores, trDeltas>>

NextRank ==
    \/ TextRankStart
    \/ TextRankRound
    \/ TextRankReturn

SpecRank == InitRank /\ [][NextRank]_vars

\* textRank is a synchronous function: once called it runs to its return
SpecRankLive == SpecRank /\ WF_vars(NextRank)

----------------------------------------------------------------------------
(* Claims about sentence ranking *)

\* C14: textRank returns at most topN indices, each within
\* [0, len(sentences)); with len(sentences) <= topN it returns all the
\* indices 0..len-1 in order, and for no sentences the empty sequence.
C14_TextRankIndices ==
    trPc = "done" /\ lastOp = "textRank" =>
        LET n == Len(trSentences)
        IN  /\ Len(trResult) <= trTopN
            /\ \A k \in 1..Len(trResult) : trResult[k] \in 0..(n - 1)
            /\ n <= trTopN =>
                  /\ Len(trResult) = n
                  /\ \A k \in 1..n : trResult[k] = k - 1
            /\ n = 0 => trResult = <<>>

\* C14 witness: four sentences ranked for the top two; two indices came back
C14_Witness ==
    /\ trPc = "done"
    /\ lastOp = "textRank"
    /\ Len(trSentences) = 4
    /\ trTopN = 2
    /\ Len(trResult) = 2
    /\ trDeltas # <<>>

\* C15: the power iteration of textRank always ends: it stops in the first
\* round whose total absolute score change is below 0.0001 and otherwise
\* after exactly 50 rounds, also for sentences without tokens and all-zero
\* similarity rows; and textRank then returns.
C15_IterationEnds ==
    /\ [](trPc = "loop" =>
             /\ Len(trDeltas) < 50
             /\ \A r \in 1..Len(trDeltas) : trDeltas[r] >= 100)
    /\ [](trPc \in {"sort", "done"} /\ trDeltas # <<>> =>
             LET k == Len(trDeltas)
             IN  /\ k <= 50
                 /\ \A r \in 1..(k - 1) : trDeltas[r] >= 100
                 /\ trDeltas[k] < 100 \/ k = 50)
    /\ <>(trPc = "done")

\* C15 witness: a list with an empty sentence ran all 50 rounds, the last
\* still changing by 0.0001 or more, and textRank returned
C15_Witness ==
    /\ trPc = "done"
    /\ Len(trDeltas) = 50
    /\ trDeltas[50] >= 100
    /\ \E i \in 1..Len(trSentences) : trSentences[i] = ""

----------------------------------------------------------------------------
(* Sentiment scoring: analyzeSentiment *)

MaxWords == 3

POSITIVE_WORDS ==
    { "good", "great", "excellent", "amazing", "wonderful", "fantastic",
      "awesome", "love", "happy", "glad", "pleased", "delighted", "perfect",
      "beautiful", "brilliant", "outstanding", "superb", "terrific",
      "positive", "success", "successful", "agree", "agreed", "approval",
      "approve", "best", "better", "celebrate", "accomplished", "achieve",
      "benefit", "comfortable", "confident", "creative", "efficient",
      "enjoy", "excited", "exciting", "favorable", "fine", "fortunate",
      "helpful", "impressive", "improved", "incredible", "inspired",
      "interesting", "joyful", "nice", "optimistic", "promising",
      "remarkable", "satisfied", "smooth", "strong", "valuable", "welcome",
      "win", "won", "worth", "worthy", "ready", "progress", "resolved" }

NEGATIVE_WORDS ==
    { "bad", "terrible", "awful", "horrible", "poor", "worst", "hate",
      "angry", "sad", "disappointed", "frustrated", "annoyed", "upset",
      "fail", "failed", "failure", "wrong", "problem", "issue", "concern",
      "worried", "worry", "difficult", "hard", "painful", "unfortunately",
      "sadly", "regret", "unhappy", "disagree", "rejected", "reject",
      "block", "blocked", "blocker", "broken", "bug", "confusing",
      "complicated", "critical", "danger", "dangerous", "delay", "delayed",
      "deny", "deprecated", "destroy", "disaster", "error", "expensive",
      "impossible", "inadequate", "incomplete", "insecure", "invalid",
      "lacking", "lost", "missing", "negative", "never", "nightmare",
      "obsolete", "overdue", "overwhelm", "risk", "risky", "severe", "slow",
      "stuck", "threat", "trouble", "unable", "unclear", "unfair",
      "unfortunate", "unstable", "urgent", "vulnerable", "weak" }

NEGATION_WORDS ==
    { "not", "n't", "no", "never", "neither", "nor", "hardly", "barely",
      "scarcely", "rarely", "don't", "doesn't", "didn't", "won't",
      "wouldn't", "couldn't", "shouldn't", "isn't", "aren't", "wasn't" }

\* replace(/[^\w\s']/g, "")
RECURSIVE stripExceptApostrophe(_)
stripExceptApostrophe(s) ==
    IF s = "" THEN ""
    ELSE (IF IsWordChar(Head(s)) \/ IsSpace(Head(s)) \/ Head(s) = "'"
          THEN Head(s) ELSE "")
         \o stripExceptApostrophe(Tail(s))

\* analyzeSentiment: words
SentimentWords(text) ==
    splitWhitespace(stripExceptApostrophe(toLowerCase(text)))

\* the body of the loop for one word; st holds score, wordCount, negated
ScanWordKeepsNegation(st, word) ==
    IF word \in NEGATION_WORDS
    THEN [st EXCEPT !.negated = TRUE]
    ELSE IF word \in POSITIVE_WORDS
    THEN [score |-> st.score + (IF st.negated THEN -1 ELSE 1),
          wordCount |-> st.wordCount + 1, negated |-> FALSE]
    ELSE IF word \in NEGATIVE_WORDS
    THEN [score |-> st.score + (IF st.negated THEN 1 ELSE -1),
          wordCount |-> st.wordCount + 1, negated |-> FALSE]
    ELSE st
ScanWord(st, word) ==
    IF word \in NEGATION_WORDS
    THEN [st EXCEPT !.negated = TRUE]
    ELSE IF word \in POSITIVE_WORDS
    THEN [score |-> st.score + (IF st.negated THEN -1 ELSE 1),
          wordCount |-> st.wordCount + 1, negated |-> FALSE]
    ELSE IF word \in NEGATIVE_WORDS
    THEN [score |-> st.score + (IF st.negated THEN 1 ELSE -1),
          wordCount |-> st.wordCount + 1, negated |-> FALSE]
    ELSE [st EXCEPT !.negated = FALSE]

\* the loop over words: the state after each word, the first entry being
\* the state before the loop
RECURSIVE ScanStates(_, _)
ScanStates(words, st) ==
    IF words = <<>> THEN <<st>>
    ELSE <<st>> \o ScanStates(Tail(words), ScanWord(st, Head(words)))

\* the value returned for a score and a word count, as num / den:
\* 0 for no counted word, else score / max(wordCount, 1) clamped to [-1, 1]
SentimentValueUnnormalized(score, wordCount) == [num |-> score, den |-> 1]
SentimentValue(score, wordCount) ==
    IF wordCount = 0 THEN [num |-> 0, den |-> 1]
    ELSE LET den == Max(wordCount, 1)
         IN  IF score > den THEN [num |-> 1, den |-> 1]
             ELSE IF score < -den THEN [num |-> -1, den |-> 1]
             ELSE [num |-> score, den |-> den]

Vocabulary == { "not", "never", "good", "bad", "the", "Great!", "isn't" }

SentimentTexts ==
    { joinSpace(ws) : ws \in UNION { [1..n -> Vocabulary] : n \in 0..MaxWords } }
      \cup { "  not   bad ", "Not, good.", "GOOD" }

InitSentiment ==
    /\ now = 0
    /\ SrsIdle
    /\ DeckIdle
    /\ GenIdle
    /\ RankIdle
    /\ ActIdle
    /\ MoreIdle
    /\ lastOp = "init"
    /\ saText \in SentimentTexts
    /\ saWords = <<>>
    /\ saContribs = <<>>
    /\ saScore = 0
    /\ saCount = 0
    /\ saResult = [num |-> 0, den |-> 1]

\* analyzeSentiment(text)
AnalyzeSentiment ==
    /\ lastOp = "init"
    /\ \E words \in {SentimentWords(saText)} :
         \E states \in {ScanStates(words,
                           [score |-> 0, wordCount |-> 0, negated |-> FALSE])} :
            /\ saWords' = words
            /\ saContribs' = [i \in 1..Len(words) |->
                                 states[i + 1].score - states[i].score]
            /\ saScore' = states[Len(states)].score
            /\ saCount' = states[Len(states)].wordCount
            /\ saResult' = SentimentValue(states[Len(states)].score,
                                          states[Len(states)].wordCount)
    /\ lastOp' = "analyzeSentiment"
    /\ UNCHANGED <<now, srsVars, deckVars, genVars, rankVars, actVars,
                   moreVars, saText>>

NextSentiment == AnalyzeSentiment

SpecSentiment == InitSentiment /\ [][NextSentiment]_vars

----------------------------------------------------------------------------
(* Claims about sentiment scoring *)

Analyzed == lastOp = "analyzeSentiment"

IsNegation(words, i) == i >= 1 /\ words[i] \in NEGATION_WORDS

\* what the word at position i adds, told from the word and the word before
ContributionAt(words, i) ==
    IF words[i] \in NEGATION_WORDS THEN 0
    ELSE IF words[i] \in POSITIVE_WORDS
    THEN (IF IsNegation(words, i - 1) THEN -1 ELSE 1)
    ELSE IF words[i] \in NEGATIVE_WORDS
    THEN (IF IsNegation(words, i - 1) THEN 1 ELSE -1)
    ELSE 0

CountedAt(words) ==
    { i \in 1..Len(words) :
        /\ words[i] \notin NEGATION_WORDS
        /\ words[i] \in POSITIVE_WORDS \cup NEGATIVE_WORDS }

\* C16: analyzeSentiment returns a value in [-1, 1] equal to the sum of the
\* contributions divided by the number of sentiment words counted, and
\* exactly 0 when none was counted, the empty string included.
C16_SentimentValue ==
    Analyzed =>
        LET count == Cardinality(CountedAt(saWords))
            sum == SumSeq(saContribs)
        IN  /\ saResult.den > 0
            /\ -saResult.den <= saResult.num
            /\ saResult.num <= saResult.den
            /\ count = 0 => saResult.num = 0
            /\ count > 0 => saResult.num * count = sum * saResult.den
            /\ saText = "" => saResult.num = 0

\* C16 witness: three counted words of mixed sign gave -1/3
C16_Witness ==
    /\ Analyzed
    /\ saText = "good bad bad"
    /\ saResult = [num |-> -1, den |-> 3]

----------------------------------------------------------------------------
(* Action-item extraction: extractActionItems, the same code in
   OfflineProvider and localSummarizer.  The regular expressions are matched
   as a backtracking matcher does: leftmost start, alternatives in order,
   greedy repetition giving characters back one at a time. *)

MaxSentences == 2

DigitSet == CharsOf("0123456789")

\* the character classes \s, [:\s], \d and \w
InClass(c, class) ==
    IF class = "s" THEN IsSpace(c)
    ELSE IF class = ":s" THEN c = ":" \/ IsSpace(c)
    ELSE IF class = "d" THEN c \in DigitSet
    ELSE IsWordChar(c)

\* the length of the longest run of class characters of s from position i
RECURSIVE RunLen(_, _, _)
RunLen(s, i, class) ==
    IF i <= Len(s) /\ InClass(CharAt(s, i), class)
    THEN 1 + RunLen(s, i + 1, class)
    ELSE 0

StartsWithAt(s, i, lit) ==
    i + Len(lit) - 1 <= Len(s) /\ SubSeq(s, i, i + Len(lit) - 1) = lit

\* the elements of a pattern
Lit(alts) == [kind |-> "lit", alts |-> alts]
Rep(class, min, max) == [kind |-> "rep", class |-> class, min |-> min, max |-> max]
Alt(subs) == [kind |-> "alt", subs |-> subs]
Opt(sub) == [kind |-> "opt", sub |-> sub]
Rest == [kind |-> "rest"]
Unbounded == 99
Ws1 == Rep("s", 1, Unbounded)
Ws0 == Rep("s", 0, Unbounded)
ColonWs1 == Rep(":s", 1, Unbounded)

\* the first result that is a position, 0 when none is
RECURSIVE FirstMatch(_)
FirstMatch(results) ==
    IF results = <<>> THEN 0
    ELSE IF Head(results) # 0 THEN Head(results)
    ELSE FirstMatch(Tail(results))

\* Match the elements pat[k..] against s from position i.  0: no match;
\* otherwise the position after the match, or for a pattern that ends in
\* (.+) the position where that capture starts (it runs to the end of s).
RECURSIVE Match(_, _, _, _)
Match(pat, k, s, i) ==
    IF k > Len(pat) THEN i
    ELSE IF pat[k].kind = "lit"
    THEN FirstMatch([a \in 1..Len(pat[k].alts) |->
            IF StartsWithAt(s, i, pat[k].alts[a])
            THEN Match(pat, k + 1, s, i + Len(pat[k].alts[a]))
            ELSE 0])
    ELSE IF pat[k].kind = "rep"
    THEN \* greedy: the longest run first, then one character less, ...
         LET run == Min(RunLen(s, i, pat[k].class), pat[k].max)
         IN  FirstMatch([j \in 1..(run - pat[k].min + 1) |->
                Match(pat, k + 1, s, i + run - j + 1)])
    ELSE IF pat[k].kind = "alt"
    THEN FirstMatch([a \in 1..Len(pat[k].subs) |->
            Match(pat[k].subs[a] \o SubSeq(pat, k + 1, Len(pat)), 1, s, i)])
    ELSE IF pat[k].kind = "opt"
    THEN FirstMatch(<<Match(pat[k].sub \o SubSeq(pat, k + 1, Len(pat)), 1, s, i),
                      Match(pat, k + 1, s, i)>>)
    ELSE \* (.+): at least one character, up to the end
         IF i <= Len(s) THEN i ELSE 0

\* String.prototype.match of an unanchored pattern: the leftmost start
\* position that matches, with what Match gives there; at = 0 for no match
LeftmostMatch(pat, s) ==
    LET hits == { p \in 1..(Len(s) + 1) : Match(pat, 1, s, p) # 0 }
    IN  IF hits = {} THEN [at |-> 0, to |-> 0]
        ELSE LET p == CHOOSE x \in hits : \A y \in hits : x <= y
             IN  [at |-> p, to |-> Match(pat, 1, s, p)]

Subject == Lit(<<"i", "we", "he", "she", "they", "you">>)

ACTION_CUES ==
    << <<Subject, Ws1, Lit(<<"will">>), Ws1, Rest>>,
       <<Subject, Ws1, Lit(<<"need">>), Ws1, Lit(<<"to">>), Ws1, Rest>>,
       <<Lit(<<"please">>), Ws1, Rest>>,
       <<Lit(<<"action">>), Ws0, Lit(<<"item">>), ColonWs1, Rest>>,
       <<Lit(<<"todo">>), ColonWs1, Rest>>,
       <<Subject, Ws1, Lit(<<"should">>), Ws1, Rest>>,
       <<Lit(<<"make sure">>), Ws1, Rest>>,
       <<Lit(<<"follow">>), Ws1, Lit(<<"up">>), Ws1, Lit(<<"on", "with">>),
         Ws1, Rest>> >>

\* sentence.match(cue): where the capture group starts, 0 for no match
CueMatch(sentence, c) == LeftmostMatch(ACTION_CUES[c], toLowerCase(sentence)).to

\* match[1]?.trim() || sentence.trim(), for a match whose capture starts at
\* position from
TaskOf(sentence, from) ==
    LET captured == trim(SubSeq(sentence, from, Len(sentence)))
    IN  IF captured # "" THEN captured ELSE trim(sentence)

\* /^([\w]+)\s+(?:will|need|should)/i
SubjectPattern ==
    <<Rep("w", 1, Unbounded), Ws1, Lit(<<"will", "need", "should">>)>>

\* the owner without the exception for "i" and "we"
OwnerOfAnySubject(sentence, userName) ==
    IF Match(SubjectPattern, 1, toLowerCase(sentence), 1) = 0 THEN userName
    ELSE SubSeq(sentence, 1, RunLen(sentence, 1, "w"))

\* the owner: the sentence's subject unless it is "i" or "we", else userName
OwnerOf(sentence, userName) ==
    IF Match(SubjectPattern, 1, toLowerCase(sentence), 1) = 0 THEN userName
    ELSE LET subject == SubSeq(sentence, 1, RunLen(sentence, 1, "w"))
         IN  IF toLowerCase(subject) \in {"i", "we"} THEN userName
             ELSE subject

\* the alternatives of the date pattern's capture group
DueCues ==
    Alt(<< <<Lit(<<"monday", "tuesday", "wednesday", "thursday", "friday",
                   "saturday", "sunday", "tomorrow">>)>>,
           <<Lit(<<"next">>), Ws1, Lit(<<"week">>)>>,
           <<Lit(<<"end">>), Ws1, Lit(<<"of">>), Ws1,
             Lit(<<"day", "week", "month">>)>>,
           <<Rep("d", 1, 2), Lit(<<"/">>), Rep("d", 1, 2),
             Opt(<<Lit(<<"/">>), Rep("d", 2, 4)>>)>> >>)

\* /by\s+(monday|...|\d{1,2}\/\d{1,2}(?:\/\d{2,4})?)/i
DuePattern == <<Lit(<<"by">>), Ws1, DueCues>>

\* sentence.match of the date pattern: where the capture group starts and
\* the position after it; at = 0 for no match
DueMatch(sentence) ==
    LET s == toLowerCase(sentence)
        m == LeftmostMatch(DuePattern, s)
    IN  IF m.at = 0 THEN [at |-> 0, to |-> 0]
        ELSE [at |-> m.at + 2 + RunLen(s, m.at + 2, "s"), to |-> m.to]

\* dateMatch[1]
DueOfLowerCased(sentence) ==
    SubSeq(toLowerCase(sentence), DueMatch(sentence).at, DueMatch(sentence).to - 1)
DueOf(sentence) ==
    SubSeq(sentence, DueMatch(sentence).at, DueMatch(sentence).to - 1)

\* the item pushed for a sentence and its task
ItemOf(sentence, task, userName) ==
    IF DueMatch(sentence).at = 0
    THEN [owner |-> OwnerOf(sentence, userName), task |-> task]
    ELSE [owner |-> OwnerOf(sentence, userName), task |-> task,
          due |-> DueOf(sentence)]

\* the loop over ACTION_CUES for one sentence, from cue c: the cue whose
\* task is pushed, 0 when the loop ends without a push.  A matching cue
\* whose task is short or already seen is passed over (continue) and the
\* loop goes on to the next cue.
RECURSIVE CueLoop(_, _, _)
CueLoop(sentence, c, seen) ==
    IF c > Len(ACTION_CUES) THEN 0
    ELSE LET from == CueMatch(sentence, c)
             task == TaskOf(sentence, from)
         IN  IF from = 0 THEN CueLoop(sentence, c + 1, seen)
             ELSE IF Len(task) < 5 \/ toLowerCase(task) \in seen
             THEN CueLoop(sentence, c + 1, seen)
             ELSE c

\* the loop over sentences, from sentence k; from records, for each item,
\* the sentence and the cue it came from
RECURSIVE ExtractLoop(_, _, _, _, _, _)
ExtractLoop(sentences, userName, k, seen, items, from) ==
    IF k > Len(sentences) THEN [items |-> items, from |-> from]
    ELSE LET c == CueLoop(sentences[k], 1, seen)
             task == TaskOf(sentences[k], CueMatch(sentences[k], c))
         IN  IF c = 0
             THEN ExtractLoop(sentences, userName, k + 1, seen, items, from)
             ELSE ExtractLoop(sentences, userName, k + 1,
                              seen \cup {toLowerCase(task)},
                              Append(items, ItemOf(sentences[k], task, userName)),
                              Append(from, [sentence |-> k, cue |-> c]))

extractActionItems(sentences, userName) ==
    ExtractLoop(sentences, userName, 1, {}, <<>>, <<>>)

UserName == "Me"

ActionSentences ==
    { "We will send the report by Friday",
      "They will SEND THE REPORT BY FRIDAY",
      "Please confirm they will send the report by Friday",
      "Please remind me that we will go",
      "Please book the room on Friday",
      "todo: call vendor by 12/25/2024",
      "Make sure you should test by end of  week",
      "Heidi will present nearby tomorrow",
      "I need to go",
      "Please  ",
      "Nothing to do here",
      "Action item: follow up with Bob next week",
      "Bob should please send the file",
      "WE need to please call Ann" }

InitActions ==
    /\ now = 0
    /\ SrsIdle
    /\ DeckIdle
    /\ GenIdle
    /\ RankIdle
    /\ SentIdle
    /\ MoreIdle
    /\ lastOp = "init"
    /\ aiSentences \in UNION { [1..n -> ActionSentences] : n \in 0..MaxSentences }
    /\ aiItems = <<>>
    /\ aiFrom = <<>>

\* extractActionItems(sentences, userName)
ExtractActionItems ==
    /\ lastOp = "init"
    /\ \E r \in {extractActionItems(aiSentences, UserName)} :
          /\ aiItems' = r.items
          /\ aiFrom' = r.from
    /\ lastOp' = "extractActionItems"
    /\ UNCHANGED <<now, srsVars, deckVars, genVars, rankVars, sentVars,
                   moreVars, aiSentences>>

NextActions == ExtractActionItems

SpecActions == InitActions /\ [][NextActions]_vars

----------------------------------------------------------------------------
(* Claims about action-item extraction *)

Extracted == lastOp = "extractActionItems"

ItemSentence(i) == aiSentences[aiFrom[i].sentence]

MatchingCues(sentence) ==
    { c \in 1..Len(ACTION_CUES) : CueMatch(sentence, c) # 0 }

\* the first cue of the table, in table order, that matches the sentence
FirstMatchingCue(sentence) ==
    CHOOSE c \in MatchingCues(sentence) : \A d \in MatchingCues(sentence) : c <= d

\* C18: extraction yields at most one action item per sentence, and the item
\* comes from the first pattern of the cue table that matches the sentence:
\* a later pattern is never used for a sentence an earlier pattern matches,
\* also when the earlier pattern's task is shorter than 5 characters or a
\* duplicate.
C18_FirstPatternWins ==
    Extracted =>
        /\ \A i, j \in 1..Len(aiItems) :
              i # j => aiFrom[i].sentence # aiFrom[j].sentence
        /\ \A i \in 1..Len(aiItems) :
              aiFrom[i].cue = FirstMatchingCue(ItemSentence(i))

\* the task of the sentence's first matching cue, "" when no cue matches
FirstTask(sentence) ==
    IF MatchingCues(sentence) = {} THEN ""
    ELSE TaskOf(sentence, CueMatch(sentence, FirstMatchingCue(sentence)))

\* C19: every task returned has at least 5 characters, no two items have
\* tasks equal ignoring case, and of several sentences yielding the same
\* task (ignoring case) only the first in sentence order produces an item.
C19_TasksDistinct ==
    Extracted =>
        /\ \A i \in 1..Len(aiItems) : Len(aiItems[i].task) >= 5
        /\ \A i, j \in 1..Len(aiItems) :
              i # j => toLowerCase(aiItems[i].task) # toLowerCase(aiItems[j].task)
        /\ \A k1, k2 \in 1..Len(aiSentences) :
              /\ k1 < k2
              /\ Len(FirstTask(aiSentences[k1])) >= 5
              /\ toLowerCase(FirstTask(aiSentences[k1]))
                    = toLowerCase(FirstTask(aiSentences[k2]))
              => \A i \in 1..Len(aiItems) : aiFrom[i].sentence # k2

\* where in the sentence a due-date cue starts: a weekday name, "tomorrow",
\* "next week", "end of day/week/month" or an MM/DD[/YYYY] date
DueCueStarts(sentence) ==
    { q \in 1..Len(sentence) : Match(<<DueCues>>, 1, toLowerCase(sentence), q) # 0 }

\* the text of the cue that starts at q
DueCueText(sentence, q) ==
    SubSeq(sentence, q, Match(<<DueCues>>, 1, toLowerCase(sentence), q) - 1)

\* C20 as claimed: an item's due is set whenever its sentence contains a
\* due-date cue anywhere, to the text of that cue, and is absent otherwise.
C20_DueAnywhere ==
    Extracted =>
        \A i \in 1..Len(aiItems) :
           IF DueCueStarts(ItemSentence(i)) = {}
           THEN "due" \notin DOMAIN aiItems[i]
           ELSE /\ "due" \in DOMAIN aiItems[i]
                /\ \E q \in DueCueStarts(ItemSentence(i)) :
                      aiItems[i].due = DueCueText(ItemSentence(i), q)

\* the cue at q follows "by" and whitespace (case-insensitively)
FollowsBy(sentence, q) ==
    \E p \in 1..(q - 3) :
       /\ StartsWithAt(toLowerCase(sentence), p, "by")
       /\ \A x \in (p + 2)..(q - 1) : IsSpace(CharAt(sentence, x))

DueCueStartsAfterBy(sentence) ==
    { q \in DueCueStarts(sentence) : FollowsBy(sentence, q) }

\* C20, amended: an item's due is set exactly when its sentence contains
\* "by", whitespace and then a due-date cue; it is the text, as written, of
\* the first cue so introduced; a cue that does not follow "by" sets no due.
C20_DueAfterBy ==
    Extracted =>
        \A i \in 1..Len(aiItems) :
           LET starts == DueCueStartsAfterBy(ItemSentence(i))
           IN  IF starts = {}
               THEN "due" \notin DOMAIN aiItems[i]
               ELSE /\ "due" \in DOMAIN aiItems[i]
                    /\ aiItems[i].due =
                          DueCueText(ItemSentence(i),
                                     CHOOSE q \in starts : \A r \in starts : q <= r)

\* C20 witness: "on Friday" set no due, "BY FRIDAY" set the due "FRIDAY"
C20_Witness ==
    /\ Extracted
    /\ aiSentences = <<"Please book the room on Friday",
                       "They will SEND THE REPORT BY FRIDAY">>
    /\ Len(aiItems) = 2
    /\ "due" \notin DOMAIN aiItems[1]
    /\ aiItems[2].due = "FRIDAY"

\* the first word of a sentence: its leading run of word characters
FirstWord(sentence) == SubSeq(sentence, 1, RunLen(sentence, 1, "w"))

\* the sentence starts with a word, then white space, then will, need or
\* should (in any case)
StartsWithSubject(sentence) ==
    LET w == RunLen(sentence, 1, "w")
        sp == RunLen(sentence, w + 1, "s")
    IN  /\ w >= 1
        /\ sp >= 1
        /\ \E verb \in {"will", "need", "should"} :
              StartsWithAt(toLowerCase(sentence), w + sp + 1, verb)

\* C21: the owner of an action item is the user name, except when the
\* sentence starts with a subject word other than "i"/"we" followed by will,
\* need or should: then it is that word as written, whichever cue matched
C21_Owner ==
    Extracted =>
        \A i \in 1..Len(aiItems) :
            aiItems[i].owner =
                IF /\ StartsWithSubject(ItemSentence(i))
                   /\ toLowerCase(FirstWord(ItemSentence(i))) \notin {"i", "we"}
                THEN FirstWord(ItemSentence(i))
                ELSE UserName

\* C21 witness: a subject kept as written by a cue that has no subject in
\* it, after an upper-case "WE" that leaves the owner the user name
C21_Witness ==
    /\ Extracted
    /\ aiSentences = <<"WE need to please call Ann",
                       "Bob should please send the file">>
    /\ aiItems = <<[owner |-> UserName, task |-> "please call Ann"],
                   [owner |-> "Bob", task |-> "send the file"]>>
    /\ aiFrom = <<[sentence |-> 1, cue |-> 2], [sentence |-> 2, cue |-> 3]>>

----------------------------------------------------------------------------
(* Follow-up questions: generateFollowUps, the same code in OfflineProvider
   and localSummarizer.  Math.random() is any of its outcomes: the first idx
   of a topic is any position of QUESTION_STARTERS.  The for loop and the
   while loop run one step per action. *)

QUESTION_STARTERS ==
    << "Who is responsible for",
       "When will",
       "What is the timeline for",
       "Why was",
       "How will we handle",
       "What are the next steps for",
       "Who will follow up on",
       "What is the status of" >>

MaxFollowUps == 5
MaxTopics == 6

AllTopics ==
    <<"Budget", "Report", "Vendor", "Launch", "Design", "Hiring", "Travel">>

FollowTopicLists ==
    { SubSeq(AllTopics, 1, n) : n \in 0..Min(MaxTopics, Len(AllTopics)) }

\* the while condition, ignoring usedStarters
StarterTakenIgnoresUsed(idx, used) == FALSE
\* usedStarters.has(idx) && usedStarters.size < QUESTION_STARTERS.length
StarterTaken(idx, used) ==
    idx \in used /\ Cardinality(used) < Len(QUESTION_STARTERS)

\* `${QUESTION_STARTERS[idx]} ${topic}?`
FollowUp(idx, topic) == QUESTION_STARTERS[idx + 1] \o " " \o topic \o "?"

\* topics.slice(0, 5)
FollowTopics(topics) == SubSeq(topics, 1, Min(MaxFollowUps, Len(topics)))

InitFollow ==
    /\ now = 0
    /\ SrsIdle
    /\ DeckIdle
    /\ GenIdle
    /\ RankIdle
    /\ SentIdle
    /\ ActIdle
    /\ SumIdle
    /\ RestIdle
    /\ lastOp = "init"
    /\ fuTopics \in FollowTopicLists
    /\ fuK = 0
    /\ fuIdx = 0
    /\ fuUsed = {}
    /\ fuPicked = <<>>
    /\ fuOut = <<>>
    /\ fuPc = "idle"
    /\ fuResult = <<>>

\* the call: followUps = [], usedStarters = new Set()
FollowUpsStart ==
    /\ fuPc = "idle"
    /\ fuPc' = "for"
    /\ fuK' = 1
    /\ lastOp' = "generateFollowUps"
    /\ UNCHANGED <<now, srsVars, deckVars, genVars, rankVars, sentVars,
                   actVars, sumVars, restVars, fuTopics, fuIdx, fuUsed,
                   fuPicked, fuOut, fuResult>>

\* the next topic: idx = Math.floor(Math.random() * QUESTION_STARTERS.length)
FollowUpsPick ==
    /\ fuPc = "for"
    /\ fuK <= Len(FollowTopics(fuTopics))
    /\ \E idx \in 0..(Len(QUESTION_STARTERS) - 1) :
          /\ fuIdx' = idx
          /\ fuPicked' = Append(fuPicked, [first |-> idx, idx |-> idx])
    /\ fuPc' = "while"
    /\ UNCHANGED <<appVars, rankVars, sentVars, actVars, sumVars, restVars,
                   fuTopics, fuK,
                   fuUsed, fuOut, fuResult>>

\* one round of the while loop: idx = (idx + 1) % QUESTION_STARTERS.length
FollowUpsProbe ==
    /\ fuPc = "while"
    /\ StarterTaken(fuIdx, fuUsed)
    /\ fuIdx' = (fuIdx + 1) % Len(QUESTION_STARTERS)
    /\ fuPicked' = [fuPicked EXCEPT ![Len(fuPicked)].idx = fuIdx']
    /\ UNCHANGED <<appVars, rankVars, sentVars, actVars, sumVars, restVars,
                   fuTopics, fuK,
                   fuUsed, fuOut, fuPc, fuResult>>

\* after the while loop: usedStarters.add(idx) and followUps.push
FollowUpsPush ==
    /\ fuPc = "while"
    /\ ~StarterTaken(fuIdx, fuUsed)
    /\ fuUsed' = fuUsed \cup {fuIdx}
    /\ fuOut' = Append(fuOut, FollowUp(fuIdx, FollowTopics(fuTopics)[fuK]))
    /\ fuK' = fuK + 1
    /\ fuPc' = "for"
    /\ UNCHANGED <<appVars, rankVars, sentVars, actVars, sumVars, restVars,
                   fuTopics, fuIdx,
                   fuPicked, fuResult>>

\* return followUps.slice(0, 5)
FollowUpsReturn ==
    /\ fuPc = "for"
    /\ fuK > Len(FollowTopics(fuTopics))
    /\ fuResult' = SubSeq(fuOut, 1, Min(MaxFollowUps, Len(fuOut)))
    /\ fuPc' = "done"
    /\ UNCHANGED <<appVars, rankVars, sentVars, actVars, sumVars, restVars,
                   fuTopics, fuK,
                   fuIdx, fuUsed, fuPicked, fuOut>>

NextFollow ==
    \/ FollowUpsStart
    \/ FollowUpsPick
    \/ FollowUpsProbe
    \/ FollowUpsPush
    \/ FollowUpsReturn

SpecFollow == InitFollow /\ [][NextFollow]_vars

\* the call runs on: JavaScript runs the function to completion
SpecFollowLive == SpecFollow /\ WF_vars(NextFollow)

----------------------------------------------------------------------------
(* Claims about follow-up questions *)

\* the starters of the questions pushed so far are pairwise distinct
StartersDistinct ==
    \A i, j \in 1..Len(fuOut) : i # j => fuPicked[i].idx # fuPicked[j].idx

\* C22: generateFollowUps returns min(5, number of topics) questions, one
\* per topic in topic order, each "<starter> <topic>?"; whatever the random
\* picks are, no starter is used twice in a call and the loop that skips
\* used starters ends
C22_FollowUps ==
    /\ [](fuPc = "done" =>
            /\ Len(fuResult) = Min(5, Len(fuTopics))
            /\ \A i \in 1..Len(fuResult) :
                  \E st \in 1..Len(QUESTION_STARTERS) :
                      /\ st = fuPicked[i].idx + 1
                      /\ fuResult[i] =
                            QUESTION_STARTERS[st] \o " " \o fuTopics[i] \o "?")
    /\ []StartersDistinct
    /\ (fuPc = "while") ~> (fuPc = "for")
    /\ <>(fuPc = "done")

\* C22 witness: six topics, five questions, the random pick the same every
\* time, so that the loop had to step past 1, 2, 3 and 4 used starters
C22_Witness ==
    /\ fuPc = "done"
    /\ Len(fuTopics) = 6
    /\ Len(fuResult) = 5
    /\ \A i \in 1..5 : fuPicked[i] = [first |-> 7, idx |-> (6 + i) % 8]
    /\ fuResult[5] = "Why was Design?"

----------------------------------------------------------------------------
(* OfflineProvider.summarize.  localSummarizer.summarize runs the same steps
   on the segments' texts joined with ". ". *)

MaxHighlightLen == 20
MinSentenceLen == 10

\* text.split(/(?<=[.!?])\s+/): a separator is a run of whitespace that
\* follows ".", "!" or "?"
SentenceBreaks(text) ==
    { [from |-> i, to |-> SpaceRunEnd(text, i)] :
      i \in { p \in 2..Len(text) :
                 /\ IsSpace(CharAt(text, p))
                 /\ CharAt(text, p - 1) \in {".", "!", "?"} } }

\* Array.prototype.filter, for a sequence of strings
RECURSIVE FilterLonger(_, _)
FilterLonger(seq, n) ==
    IF seq = <<>> THEN <<>>
    ELSE (IF Len(Head(seq)) > n THEN <<Head(seq)>> ELSE <<>>)
         \o FilterLonger(Tail(seq), n)

\* the split and the trim without the filter
splitSentencesUnfiltered(text) ==
    LET raw == SplitBy(text, SentenceBreaks(text))
    IN  [i \in 1..Len(raw) |-> trim(raw[i])]

splitSentences(text) ==
    LET raw == SplitBy(text, SentenceBreaks(text))
    IN  FilterLonger([i \in 1..Len(raw) |-> trim(raw[i])], MinSentenceLen)

\* the element of a one-element set: binds a value computed once
Only(S) == CHOOSE x \in S : TRUE

\* the PageRank loop of textRank, after iter rounds
RECURSIVE TextRankLoop(_, _, _)
TextRankLoop(m, sc, iter) ==
    IF iter >= maxIter THEN sc
    ELSE Only({ IF LoopExits(Delta(newScores, sc), iter + 1) THEN newScores
                ELSE TextRankLoop(m, newScores, iter + 1) :
                newScores \in {NewScores(m, sc)} })

textRank(sentences, topN) ==
    LET n == Len(sentences)
    IN  IF n = 0 THEN <<>>
        ELSE IF n <= topN THEN [i \in 1..n |-> i - 1]
        ELSE Only({ TopIndices(scores, topN) :
                    scores \in { TextRankLoop(m, [i \in 1..n |-> ScoreScale \div n], 0) :
                                 m \in {SimilarityMatrix(sentences)} } })

\* indices.sort((a, b) => a - b)
RECURSIVE SortAscending(_)
SortAscending(indices) ==
    IF indices = <<>> THEN <<>>
    ELSE LET k == CHOOSE i \in 1..Len(indices) :
                     \A j \in 1..Len(indices) : indices[i] <= indices[j]
         IN  <<indices[k]>> \o
             SortAscending(SubSeq(indices, 1, k - 1)
                           \o SubSeq(indices, k + 1, Len(indices)))

\* indices.sort((a, b) => a - b).map((i) => sentences[i])
SentencesAt(sentences, indices) ==
    LET sorted == SortAscending(indices)
    IN  [k \in 1..Len(sorted) |-> sentences[sorted[k] + 1]]

DECISION_CUES ==
    << "we decided", "it was decided", "the decision is", "we agreed",
       "agreed to", "will go with", "final decision", "conclusion is",
       "we'll proceed", "approved", "let's go ahead" >>

HasDecisionCue(s) ==
    \E c \in 1..Len(DECISION_CUES) : includes(toLowerCase(s), DECISION_CUES[c])

extractDecisions(sentences) == slice0(SelectSeq(sentences, HasDecisionCue), 10)

EndsWithQuestionMark(s) == trim(s) # "" /\ CharAt(trim(s), Len(trim(s))) = "?"

OpenQuestions(sentences) ==
    slice0(SelectSeq(sentences, EndsWithQuestionMark), 10)

\* t.charAt(0).toUpperCase() + t.slice(1)
Capitalize(t) ==
    IF t = "" THEN ""
    ELSE (IF Head(t) \in LowerSet
          THEN CharAt(UpperChars, CHOOSE i \in 1..26 : CharAt(LowerChars, i) = Head(t))
          ELSE Head(t)) \o Tail(t)

extractTopics(text) ==
    LET topics == slice0(FilterLonger(extractKeywords(text, 20), 3), 10)
    IN  [i \in 1..Len(topics) |-> Capitalize(topics[i])]

\* highlightIndices
HighlightIndices(sentences) == textRank(sentences, Min(10, Len(sentences)))

\* the highlights without the sort: in the ranker's order
HighlightsInRankOrder(sentences, indices) ==
    FilterLonger([k \in 1..Len(indices) |-> sentences[indices[k] + 1]],
                 MaxHighlightLen)

\* the highlights of the indices the ranker returned
HighlightsOf(sentences, indices) ==
    FilterLonger(SentencesAt(sentences, indices), MaxHighlightLen)

\* the while loop of generateFollowUps
RECURSIVE ProbeFrom(_, _)
ProbeFrom(idx, used) ==
    IF StarterTaken(idx, used)
    THEN ProbeFrom((idx + 1) % Len(QUESTION_STARTERS), used)
    ELSE idx

\* generateFollowUps(topics) when Math.random() gives picks[k] for topic k
RECURSIVE FollowUpsFrom(_, _, _, _)
FollowUpsFrom(topics, picks, k, used) ==
    IF k > Len(topics) THEN <<>>
    ELSE LET idx == ProbeFrom(picks[k], used)
         IN  <<FollowUp(idx, topics[k])>>
             \o FollowUpsFrom(topics, picks, k + 1, used \cup {idx})

generateFollowUps(topics, picks) ==
    slice0(FollowUpsFrom(FollowTopics(topics), picks, 1, {}), MaxFollowUps)

\* the matches of /\.\s+/: a "." and the run of whitespace after it
SegmentBreaks(transcript) ==
    { [from |-> i, to |-> SpaceRunEnd(transcript, i + 1)] :
      i \in { p \in 1..(Len(transcript) - 1) :
                 /\ CharAt(transcript, p) = "."
                 /\ IsSpace(CharAt(transcript, p + 1)) } }

\* transcript.split(/\.\s+/).filter(Boolean)
SegmentTexts(transcript) == FilterLonger(SplitBy(transcript, SegmentBreaks(transcript)), 0)

analyzeSentiment(text) ==
    LET states == ScanStates(SentimentWords(text),
                             [score |-> 0, wordCount |-> 0, negated |-> FALSE])
    IN  SentimentValue(states[Len(states)].score, states[Len(states)].wordCount)

analyzeSentimentBatch(segments) ==
    [i \in 1..Len(segments) |-> analyzeSentiment(segments[i])]

\* everything summarize computes before generateFollowUps
SummaryParts(transcript, userName) ==
    LET sentences == splitSentences(transcript)
        ranked == HighlightIndices(sentences)
    IN  [sentences |-> sentences,
         ranked |-> ranked,
         tldr |-> SentencesAt(sentences, textRank(sentences, Min(5, Len(sentences)))),
         keyPoints |-> SentencesAt(sentences,
                                   textRank(sentences, Min(10, Len(sentences)))),
         decisions |-> extractDecisions(sentences),
         actionItems |-> extractActionItems(sentences, userName).items,
         openQuestions |-> OpenQuestions(sentences),
         topics |-> extractTopics(transcript),
         highlights |-> HighlightsOf(sentences, ranked),
         sentimentBySegment |-> analyzeSentimentBatch(SegmentTexts(transcript))]

Transcripts ==
    { "",
      "   ",
      "Hi.",
      "Budget ok.",
      "Ok. Fine! Why? Great idea.",
      "We agreed to do it. Please fix the bug by Friday. Who owns it?",
      "cat dog fox cat dog. cat dog fox cat dogs. cat dog fox.",
      "the cat sat on a mat. the dog sat on a log. a cat and a dog. the fox ran off now. a fox and a cat sat. the cat sat. the dog ran off to a fox. the mat and the log. a log on a mat on a dog. the fox sat on the log. the dog and the fox ran." }

PartsOf == [t \in Transcripts |-> SummaryParts(t, UserName)]

InitSummarize ==
    /\ now = 0
    /\ SrsIdle
    /\ DeckIdle
    /\ GenIdle
    /\ RankIdle
    /\ SentIdle
    /\ ActIdle
    /\ FollowIdle
    /\ RestIdle
    /\ lastOp = "init"
    /\ smTranscript \in Transcripts
    /\ smSentences = <<>>
    /\ smRanked = <<>>
    /\ smResult = NoResult

\* OfflineProvider.summarize(transcript, userName)
Summarize ==
    /\ lastOp = "init"
    /\ \E parts \in {PartsOf[smTranscript]} :
         \E picks \in [1..Len(FollowTopics(parts.topics)) ->
                          0..(Len(QUESTION_STARTERS) - 1)] :
            /\ smSentences' = parts.sentences
            /\ smRanked' = parts.ranked
            /\ smResult' = [tldr |-> parts.tldr,
                            keyPoints |-> parts.keyPoints,
                            decisions |-> parts.decisions,
                            actionItems |-> parts.actionItems,
                            openQuestions |-> parts.openQuestions,
                            topics |-> parts.topics,
                            highlights |-> parts.highlights,
                            followUps |-> generateFollowUps(parts.topics, picks),
                            sentimentBySegment |-> parts.sentimentBySegment]
    /\ lastOp' = "summarize"
    /\ UNCHANGED <<now, srsVars, deckVars, genVars, rankVars, sentVars,
                   actVars, followVars, restVars, smTranscript>>

NextSummarize == Summarize

SpecSummarize == InitSummarize /\ [][NextSummarize]_vars

----------------------------------------------------------------------------
(* Claims about summarize *)

Summarized == lastOp = "summarize"

\* the sentences the ranker selected, in ascending original order
SelectedInOrder ==
    LET chosen == { smRanked[k] : k \in 1..Len(smRanked) }
        at(p) == Cardinality({ i \in chosen : i < p }) + 1
    IN  [k \in 1..Cardinality(chosen) |->
            smSentences[(CHOOSE p \in chosen : at(p) = k) + 1]]

\* C23: the highlights are the sentences the ranker selects with topN up to
\* 10, in ascending original order, less exactly those shorter than 20
\* characters: a selected sentence of 20 characters or more is kept
C23_Highlights ==
    Summarized =>
        /\ Len(smRanked) = Min(10, Len(smSentences))
        /\ smResult.highlights =
              SelectSeq(SelectedInOrder, LAMBDA sentence : Len(sentence) >= 20)

\* C23, amended: the highlights are the sentences the ranker selects with
\* topN up to 10, in ascending original order, less exactly those of 20
\* characters or fewer: a selected sentence of more than 20 characters is
\* kept
C23_HighlightsOver20 ==
    Summarized =>
        /\ Len(smRanked) = Min(10, Len(smSentences))
        /\ smResult.highlights =
              SelectSeq(SelectedInOrder, LAMBDA sentence : Len(sentence) > 20)

\* C23 witness: eleven sentences, of which the ranker leaves out the eighth
\* and ranks the second first; four of the ten selected are too short
C23_Witness ==
    /\ Summarized
    /\ Len(smSentences) = 11
    /\ Len(smRanked) = 10
    /\ smRanked[1] = 1
    /\ \A k \in 1..10 : smRanked[k] # 7
    /\ Len(smResult.highlights) = 6
    /\ smResult.highlights[1] = smSentences[1]

\* the sequences of the AiSummaryResult
OutputSequences ==
    { smResult.tldr, smResult.keyPoints, smResult.decisions,
      smResult.actionItems, smResult.openQuestions, smResult.topics,
      smResult.highlights, smResult.followUps, smResult.sentimentBySegment }

\* C24: when the transcript is empty or no sentence is retained (every
\* fragment has 10 characters or fewer), every output sequence of summarize
\* is empty
C24_EmptyOutputs ==
    Summarized /\ smSentences = <<>> => OutputSequences = {<<>>}

\* the sequences summarize derives from the sentences
SentenceSequences ==
    { smResult.tldr, smResult.keyPoints, smResult.decisions,
      smResult.actionItems, smResult.openQuestions, smResult.highlights }

\* C24, amended: for the empty transcript every output sequence is empty;
\* when no sentence is retained the sequences derived from the sentences
\* are empty, and followUps has one question per topic, up to 5 (topics
\* and sentimentBySegment come from the transcript and may be non-empty)
C24_EmptyWhenNoSentences ==
    /\ Summarized /\ smTranscript = "" => OutputSequences = {<<>>}
    /\ Summarized /\ smSentences = <<>> =>
          /\ SentenceSequences = {<<>>}
          /\ Len(smResult.followUps) = Min(5, Len(smResult.topics))

\* C24 witness: a transcript of one fragment of 10 characters: no sentence,
\* one topic, one follow-up, one segment
C24_Witness ==
    /\ Summarized
    /\ smTranscript = "Budget ok."
    /\ smSentences = <<>>
    /\ smResult.tldr = <<>>
    /\ smResult.topics = <<"Budget">>
    /\ Len(smResult.followUps) = 1
    /\ smResult.sentimentBySegment = <<[num |-> 0, den |-> 1]>>

----------------------------------------------------------------------------
(* utils/text.ts: chunkText *)

MaxChars == 12

\* what is left alone by the operations below, and its value
idleVars == <<now, srsVars, deckVars, genVars, rankVars, sentVars, actVars,
              followVars, sumVars>>

AllIdle ==
    /\ now = 0
    /\ SrsIdle
    /\ DeckIdle
    /\ GenIdle
    /\ RankIdle
    /\ SentIdle
    /\ ActIdle
    /\ FollowIdle
    /\ SumIdle

\* the condition of the push, with the length of the joined text wrong by
\* the separating blank
ExceedsWithoutBlank(current, sentence, maxChars) ==
    Len(current) + Len(sentence) > maxChars /\ Len(current) > 0
\* current.length + sentence.length + 1 > maxChars && current.length > 0
Exceeds(current, sentence, maxChars) ==
    Len(current) + Len(sentence) + 1 > maxChars /\ Len(current) > 0

\* the for loop over sentences from sentence k, and the push after it
RECURSIVE ChunkLoop(_, _, _, _)
ChunkLoop(sentences, k, current, maxChars) ==
    IF k > Len(sentences)
    THEN IF trim(current) # "" THEN <<trim(current)>> ELSE <<>>
    ELSE IF Exceeds(current, sentences[k], maxChars)
    THEN <<trim(current)>> \o ChunkLoop(sentences, k + 1, sentences[k], maxChars)
    ELSE ChunkLoop(sentences, k + 1,
                   current \o (IF current # "" THEN " " ELSE "") \o sentences[k],
                   maxChars)

chunkText(text, maxChars) ==
    IF Len(text) <= maxChars THEN <<text>>
    ELSE ChunkLoop(SplitBy(text, SentenceBreaks(text)), 1, "", maxChars)

ChunkTexts ==
    { "",
      "   ",
      "xxxxxxxxxx",
      "A. B. C. D. E. F. G.",
      "Hello world.",
      "One two. Three!  Four five six?\nSeven.",
      "  Lead. Trail.  ",
      "No stop here at all",
      "Tiny. Averyverylongsentence. Tiny.",
      "a. b.. c. . d",
      "Abc. Defg. Hijkl. Mnopqr. Stuvwxy." }

InitChunk ==
    /\ AllIdle
    /\ StudyIdle
    /\ NotesIdle
    /\ WaveIdle
    /\ lastOp = "init"
    /\ ckText \in ChunkTexts
    /\ ckMax \in 0..MaxChars
    /\ ckChunks = <<>>

\* chunkText(text, maxChars)
ChunkText ==
    /\ lastOp = "init"
    /\ ckChunks' = chunkText(ckText, ckMax)
    /\ lastOp' = "chunkText"
    /\ UNCHANGED <<idleVars, studyVars, notesVars, waveVars, ckText, ckMax>>

NextChunk == ChunkText

SpecChunk == InitChunk /\ [][NextChunk]_vars

----------------------------------------------------------------------------
(* Claims about chunkText *)

Chunked == lastOp = "chunkText"

\* the sentences of a text: the pieces between sentence boundaries, trimmed,
\* those with nothing in them left out
SentencesOf(text) ==
    SelectSeq(splitSentencesUnfiltered(text), LAMBDA piece : piece # "")

\* the sentences of a sequence of chunks, read in order
RECURSIVE SentencesOfAll(_)
SentencesOfAll(chunks) ==
    IF chunks = <<>> THEN <<>>
    ELSE SentencesOf(Head(chunks)) \o SentencesOfAll(Tail(chunks))

\* C25: chunkText drops nothing and keeps to the limit: a text no longer
\* than maxChars comes back as the only chunk; otherwise the sentences of
\* the chunks in order are the sentences of the text in order, and a chunk
\* is longer than maxChars only if it is one sentence that is too long
C25_ChunkText ==
    Chunked =>
        IF Len(ckText) <= ckMax THEN ckChunks = <<ckText>>
        ELSE /\ SentencesOfAll(ckChunks) = SentencesOf(ckText)
             /\ \A c \in 1..Len(ckChunks) :
                   \/ Len(ckChunks[c]) <= ckMax
                   \/ Len(SentencesOf(ckChunks[c])) = 1

\* C25 witness: a sentence longer than maxChars kept whole between chunks
\* that are within the limit
C25_Witness ==
    /\ Chunked
    /\ ckText = "Tiny. Averyverylongsentence. Tiny."
    /\ ckMax = 11
    /\ ckChunks = <<"Tiny.", "Averyverylongsentence.", "Tiny.">>

----------------------------------------------------------------------------
(* Claims about the intervals of successive reviews *)

\* C26: from the default card, every passing review (rating >= 3) gives an
\* interval of at least 1 day; along a run of consecutive passing reviews
\* the interval is 1, then 6, then more than the interval before it; only a
\* failing review gives interval 0
C26_IntervalsGrow ==
    [][lastOp' = "review" =>
          /\ rated' >= 3 => card'.interval >= 1
          /\ rated' >= 3 /\ rated < 3 => card'.interval = 1
          /\ rated' >= 3 /\ rated >= 3 /\ card.interval = 1 => card'.interval = 6
          /\ rated' >= 3 /\ rated >= 3 => card'.interval > card.interval
          /\ card'.interval = 0 <=> rated' < 3]_vars

\* C26 witness: a run of six passing reviews at the lowest easiness, the
\* interval having grown 1, 6, 8, 10, 13, 17
C26_Witness ==
    /\ lastOp = "review"
    /\ rated >= 3
    /\ card.repetitions = 6
    /\ card.easiness = MIN_EASINESS
    /\ prev.interval = 13
    /\ card.interval = 17

----------------------------------------------------------------------------
(* store/useFlashcardsStore.ts: the study session.  startStudy and rateCard
   are async: each runs up to an await, and goes on when the promise it
   awaits resolves, other handlers running in between.  A FlashcardsRepo
   call takes effect on the table when it is made and its promise resolves
   later; getDue and getDueCount read the table when they resolve. *)

MaxCalls == 2
MaxStarts == 1

StudyRatings == {3, 4}

\* noteId of startStudy(noteId?): "" for undefined
StudyNoteIds == {"", "note-2"}

StudyTable ==
    << makeCard(1, "note-1", "qa", "Q1", "A1", <<>>, 0),
       makeCard(2, "note-1", "qa", "Q2", "A2", <<>>, 0) >>

\* ORDER BY nextReviewAt ASC, rows of equal nextReviewAt in table order
RECURSIVE OrderByNextReviewAt(_)
OrderByNextReviewAt(rows) ==
    IF rows = <<>> THEN <<>>
    ELSE LET k == CHOOSE i \in 1..Len(rows) :
                     /\ \A j \in 1..Len(rows) :
                           rows[i].nextReviewAt <= rows[j].nextReviewAt
                     /\ \A j \in 1..(i - 1) :
                           rows[j].nextReviewAt > rows[i].nextReviewAt
         IN  <<rows[k]>>
             \o OrderByNextReviewAt(SubSeq(rows, 1, k - 1)
                                    \o SubSeq(rows, k + 1, Len(rows)))

\* FlashcardsRepo.getDue()
getDue(rows, t) ==
    OrderByNextReviewAt(SelectSeq(rows, LAMBDA c : c.nextReviewAt <= t))

\* FlashcardsRepo.getDueCount()
getDueCount(rows, t) == Len(SelectSeq(rows, LAMBDA c : c.nextReviewAt <= t))

\* FlashcardsRepo.updateSRS(updated): the table after the UPDATE
TableAfter(rows, u) ==
    [k \in 1..Len(rows) |->
        IF rows[k].id = u.id THEN updateSRS(rows[k], u) ELSE rows[k]]

\* a sequence without its i-th element
Without(seq, i) == SubSeq(seq, 1, i - 1) \o SubSeq(seq, i + 1, Len(seq))

InitStudy ==
    /\ AllIdle
    /\ ChunkIdle
    /\ NotesIdle
    /\ WaveIdle
    /\ lastOp = "init"
    /\ stCards = StudyTable
    /\ stSession = <<>>
    /\ stStart = <<>>
    /\ stCalls = <<>>
    /\ stLog = <<>>
    /\ stPosition = 0
    /\ stEnded = FALSE
    /\ stDueCount = 0

\* startStudy(noteId), up to await FlashcardsRepo.getDue()
StartStudyCall ==
    /\ Len(stStart) < MaxStarts
    /\ \E noteId \in StudyNoteIds : stStart' = Append(stStart, noteId)
    /\ stEnded' = FALSE
    /\ lastOp' = "startStudy"
    /\ UNCHANGED <<idleVars, chunkVars, notesVars, waveVars, stCards,
                   stSession, stCalls, stLog, stPosition, stDueCount>>

\* startStudy, after the await
StartStudyResume ==
    /\ \E i \in 1..Len(stStart) :
          \E dueCards \in {getDue(stCards, now)} :
          \E filtered \in {IF stStart[i] # ""
                           THEN SelectSeq(dueCards, LAMBDA c : c.noteId = stStart[i])
                           ELSE dueCards} :
             /\ stSession' = IF Len(filtered) = 0 THEN <<>>
                             ELSE << [noteId |-> stStart[i],
                                      cards |-> filtered,
                                      currentIndex |-> 0,
                                      showAnswer |-> FALSE] >>
             /\ stStart' = Without(stStart, i)
    /\ stLog' = <<>>
    /\ stPosition' = 0
    /\ stEnded' = FALSE
    /\ lastOp' = "startStudy"
    /\ UNCHANGED <<idleVars, chunkVars, notesVars, waveVars, stCards,
                   stCalls, stDueCount>>

\* revealAnswer()
RevealAnswer ==
    /\ stSession # <<>>
    /\ ~stSession[1].showAnswer
    /\ stSession' = <<[stSession[1] EXCEPT !.showAnswer = TRUE]>>
    /\ lastOp' = "revealAnswer"
    /\ UNCHANGED <<idleVars, chunkVars, notesVars, waveVars, stCards,
                   stStart, stCalls, stLog, stPosition, stEnded, stDueCount>>

\* rateCard(rating), up to await FlashcardsRepo.updateSRS(updated); without
\* a session or a card it returns at once
RateCardCall ==
    /\ Len(stCalls) < MaxCalls
    /\ stSession # <<>>
    /\ stSession[1].currentIndex < Len(stSession[1].cards)
    /\ \E rating \in StudyRatings :
         \E session \in {stSession[1]} :
         \E updated \in {computeSRS(session.cards[session.currentIndex + 1],
                                    rating, now)} :
            /\ stCards' = TableAfter(stCards, updated)
            /\ stLog' = Append(stLog, updated.id)
            /\ stCalls' = Append(stCalls, [pc |-> "updateSRS",
                                          session |-> session])
    /\ lastOp' = "rateCard"
    /\ UNCHANGED <<idleVars, chunkVars, notesVars, waveVars, stSession,
                   stStart, stPosition, stEnded, stDueCount>>

\* rateCard, after updateSRS, up to await FlashcardsRepo.getDueCount()
RateCardMove ==
    /\ \E i \in 1..Len(stCalls) :
          /\ stCalls[i].pc = "updateSRS"
          /\ \E session \in {stCalls[i].session} :
             \E nextIndex \in {session.currentIndex + 1} :
                /\ stSession' = IF nextIndex >= Len(session.cards) THEN <<>>
                                ELSE << [session EXCEPT
                                           !.currentIndex = nextIndex,
                                           !.showAnswer = FALSE] >>
                /\ stPosition' = nextIndex
          /\ stCalls' = [stCalls EXCEPT ![i].pc = "getDueCount"]
    /\ lastOp' = "rateCard"
    /\ UNCHANGED <<idleVars, chunkVars, notesVars, waveVars, stCards,
                   stStart, stLog, stEnded, stDueCount>>

\* rateCard, after getDueCount
RateCardRefresh ==
    /\ \E i \in 1..Len(stCalls) :
          /\ stCalls[i].pc = "getDueCount"
          /\ stCalls' = Without(stCalls, i)
    /\ stDueCount' = getDueCount(stCards, now)
    /\ lastOp' = "rateCard"
    /\ UNCHANGED <<idleVars, chunkVars, notesVars, waveVars, stCards,
                   stSession, stStart, stLog, stPosition, stEnded>>

\* endStudy()
EndStudy ==
    /\ stSession' = <<>>
    /\ stEnded' = TRUE
    /\ lastOp' = "endStudy"
    /\ UNCHANGED <<idleVars, chunkVars, notesVars, waveVars, stCards,
                   stStart, stCalls, stLog, stPosition, stDueCount>>

NextStudy ==
    \/ StartStudyCall
    \/ StartStudyResume
    \/ RevealAnswer
    \/ RateCardCall
    \/ RateCardMove
    \/ RateCardRefresh
    \/ EndStudy

SpecStudy == InitStudy /\ [][NextStudy]_vars

----------------------------------------------------------------------------
(* Claims about the study session *)

\* no rateCard call is between its updateSRS and its move of the session
NoneAwaitingUpdate == \A i \in 1..Len(stCalls) : stCalls[i].pc # "updateSRS"

\* C27: in a study session no card is passed to updateSRS twice, and every
\* rating moves the session on by exactly one card, also when rateCard
\* calls overlap
C27_OneUpdatePerCard ==
    /\ \A i, j \in 1..Len(stLog) : i # j => stLog[i] # stLog[j]
    /\ NoneAwaitingUpdate /\ stLog # <<>> => stPosition = Len(stLog)

\* C28: after endStudy the session stays null until the next startStudy,
\* also when a rateCard call was awaiting its write
C28_StaysEnded == stEnded => stSession = <<>>

----------------------------------------------------------------------------
(* store/useNotesStore.ts: soft delete with undo.  The notes of the model
   carry no tags and no search is active: displayNotes is notes and allTags
   stays empty.  The timer fires at any moment while it is set. *)

MaxNotes == 3

\* an id no note has
UnknownId == MaxNotes + 1

NoteTable ==
    [i \in 1..MaxNotes |->
        [id |-> i, isPinned |-> (i = 2), updatedAt |-> (i * 7) % 5]]

\* (b.isPinned ? 1 : 0) - (a.isPinned ? 1 : 0) || b.updatedAt - a.updatedAt
NoteBefore(a, b) ==
    \/ a.isPinned /\ ~b.isPinned
    \/ a.isPinned = b.isPinned /\ a.updatedAt > b.updatedAt

\* Array.prototype.sort with that comparator: stable
RECURSIVE SortNotes(_)
SortNotes(notes) ==
    IF notes = <<>> THEN <<>>
    ELSE LET k == CHOOSE i \in 1..Len(notes) :
                     /\ \A j \in 1..Len(notes) : ~NoteBefore(notes[j], notes[i])
                     /\ \A j \in 1..(i - 1) : NoteBefore(notes[i], notes[j])
         IN  <<notes[k]>> \o SortNotes(Without(notes, k))

InitNotes ==
    /\ AllIdle
    /\ ChunkIdle
    /\ StudyIdle
    /\ WaveIdle
    /\ lastOp = "init"
    /\ ntNotes = SortNotes(NoteTable)
    /\ ntPending = <<>>
    /\ ntTimer = FALSE
    /\ ntDeleted = {}
    /\ ntRestored = {}

\* softDeleteNote(id)
SoftDeleteNote ==
    /\ \E id \in 1..MaxNotes \cup {UnknownId} :
          /\ ntDeleted' = IF ntTimer /\ ntPending # <<>>
                          THEN ntDeleted \cup {ntPending[1].id}
                          ELSE ntDeleted
          /\ IF \E k \in 1..Len(ntNotes) : ntNotes[k].id = id
             THEN /\ ntPending' = SelectSeq(ntNotes, LAMBDA n : n.id = id)
                  /\ ntNotes' = SelectSeq(ntNotes, LAMBDA n : n.id # id)
                  /\ ntTimer' = TRUE
             ELSE /\ ntTimer' = FALSE
                  /\ UNCHANGED <<ntNotes, ntPending>>
    /\ lastOp' = "softDeleteNote"
    /\ UNCHANGED <<idleVars, chunkVars, studyVars, waveVars, ntRestored>>

\* undoDeleteNote()
UndoDeleteNote ==
    /\ ntTimer' = FALSE
    /\ IF ntPending = <<>>
       THEN UNCHANGED <<ntNotes, ntPending, ntRestored>>
       ELSE /\ ntNotes' = SortNotes(ntNotes \o ntPending)
            /\ ntPending' = <<>>
            /\ ntRestored' = ntRestored \cup {ntPending[1].id}
    /\ lastOp' = "undoDeleteNote"
    /\ UNCHANGED <<idleVars, chunkVars, studyVars, waveVars, ntDeleted>>

\* the timer fires: commitPendingDelete()
CommitPendingDelete ==
    /\ ntTimer
    /\ ntTimer' = FALSE
    /\ IF ntPending = <<>>
       THEN UNCHANGED <<ntPending, ntDeleted>>
       ELSE /\ ntPending' = <<>>
            /\ ntDeleted' = ntDeleted \cup {ntPending[1].id}
    /\ lastOp' = "commitPendingDelete"
    /\ UNCHANGED <<idleVars, chunkVars, studyVars, waveVars, ntNotes,
                   ntRestored>>

NextNotes ==
    \/ SoftDeleteNote
    \/ UndoDeleteNote
    \/ CommitPendingDelete

SpecNotes == InitNotes /\ [][NextNotes]_vars

----------------------------------------------------------------------------
(* Claims about soft delete *)

\* C29: whatever the order of softDeleteNote (of known and unknown ids),
\* undoDeleteNote and the commit timer, a note NotesRepo.delete was called
\* for is never in the notes list: undo puts back only notes that were not
\* permanently deleted
C29_UndoConsistent ==
    \A k \in 1..Len(ntNotes) : ntNotes[k].id \notin ntDeleted

----------------------------------------------------------------------------
(* store/useRecordingStore.ts: the waveform.  The other fields of the store
   are not written by these operations, but for resetRecording, which gives
   them their first values back. *)

KeepSamples == 200
MaxSamples == 202
MaxLoud == 1

Amplitudes == {0, 1}

\* Array.prototype.slice(-n)
LastN(seq, n) == SubSeq(seq, Max(1, Len(seq) - n + 1), Len(seq))

InitWave ==
    /\ AllIdle
    /\ ChunkIdle
    /\ StudyIdle
    /\ NotesIdle
    /\ lastOp = "init"
    /\ wvWaveform = <<>>
    /\ wvAppended = <<>>

\* appendWaveform(amplitude)
AppendWaveform ==
    /\ Len(wvAppended) < MaxSamples
    /\ \E amplitude \in Amplitudes :
          /\ amplitude = 1 =>
                Cardinality({i \in 1..Len(wvAppended) : wvAppended[i] = 1}) < MaxLoud
          /\ wvWaveform' = Append(LastN(wvWaveform, KeepSamples), amplitude)
          /\ wvAppended' = Append(wvAppended, amplitude)
    /\ lastOp' = "appendWaveform"
    /\ UNCHANGED <<idleVars, chunkVars, studyVars, notesVars>>

\* resetRecording()
ResetRecording ==
    /\ wvWaveform' = <<>>
    /\ wvAppended' = <<>>
    /\ lastOp' = "resetRecording"
    /\ UNCHANGED <<idleVars, chunkVars, studyVars, notesVars>>

NextWave ==
    \/ AppendWaveform
    \/ ResetRecording

SpecWave == InitWave /\ [][NextWave]_vars

----------------------------------------------------------------------------
(* Claims about the waveform *)

\* C30: the waveform never has more than 200 entries, they are the last
\* amplitudes appended, in the order of appending, and resetRecording
\* empties it
C30_Last200 ==
    /\ Len(wvWaveform) <= 200
    /\ \E n \in {Min(200, Len(wvAppended))} :
          wvWaveform = SubSeq(wvAppended, Len(wvAppended) - n + 1, Len(wvAppended))
    /\ lastOp = "resetRecording" => wvWaveform = <<>>

====
